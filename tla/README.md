# exec-agent: a verification project

exec-agent is a personal assistant daemon. It polls connectors (mail, calendar,
accounting, courses), lets a language model read what they report and *propose*
actions, and performs an action only after a policy file or its owner has said
so. That last promise is the interesting one: an action posts a voucher or sends
mail, so it must be performed with consent, at most once, and truthfully
reported, through crashes, restarts, double taps and connectors that never
answer. The second is the conversation: a message is a paid model session, so it
must not be charged twice however often Telegram delivers it, and the phone and
the terminal must advance one thread without forking it. The third is the
unattended work: a job that fails must be retried and reported without anybody
watching, what the connectors see must reach the owner once and at a bearable
rate, and a pause the owner asked for must outlive the process. The fourth is
the books: a bank line is booked once, by consent, and for its own amount.

This directory holds TLA+ models of the daemon's own logic, the TLC
configurations that check them on small instances, and proofs checked by TLAPS.
Every definition that models code is listed with its lines in `PROJECT.json`.

## 1. Inventory

| part | source | state it keeps | operations | hard because |
|---|---|---|---|---|
| action store | `ea-core/store/actions.rs` | the `actions` table: status, `executed_at`, expiry | propose, approve, reject, claim_for_execution, mark_executed / mark_failed, fail_stranded, expire_stale | every operation is one conditional UPDATE racing all the others |
| executor | `ea-daemon/executor.rs` | `in_flight`, released when its future is dropped | submit, execute_approved | five awaits around one side effect |
| policy | `ea-core/policy.rs` | rules, fixed at start | decide | default must be "ask" |
| run store | `ea-core/store/runs.rs` | the `runs` table | start, finish | must survive what the action does not |
| recovery | `ea-daemon/recovery.rs` | none | sweep_stranded | may itself be cut short |
| Telegram | `notify/telegram.rs`, `notify/updates.rs` | update offset, handled set | push_action, handle_callback, poll | at-most-once handling across crashes; one update at a time |
| IPC | `ipc.rs`, `daemon.rs` | open connections, the pause flag | propose, approve, reject, pause, resume, status, chat | concurrent, aborted at shutdown |
| registry | `connectors.rs` | one cached client per connector | call, evict, discard | two nested deadlines, late answers |
| scheduler | `scheduler.rs` | per job: running, failures, breaker | tick, reset, pause, resume, drain | breaker against overlapping results |
| triage and events | `jobs.rs`, `triage.rs`, `store/events.rs` | the `events` table | watch_poll, run_triage | an event changes while it is being scored |
| notifications | `notify/policy.rs`, `notify/log.rs` | recent pushes, the digest | evaluate, record, push_digest, drop_prefix | quiet hours, rate limit, cap |
| briefings, schedules | `briefings.rs`, `schedules.rs` | the anchor of each schedule | tick, run | claimed before done; clocks change |
| sessions, chat, budget | `session.rs`, `chat.rs`, `budget.rs`, `store/claude_sessions.rs`, `store/conversations.rs` | child processes, the current conversation | run, turn, try_consume | timeouts, late finishes |
| connectors | `ea-google`, `ea-kth`, `ea-notion`, `ea-canvas`, `ea-fortnox-mcp` | none but tokens | watch_poll | stable ids, one failing account among others, dates |
| retention | `store/retention.rs`, `retention.rs` | none | prune | deletes what a connector may still report |
| locks | `lock.rs`, `database.rs` | a file lock and an advisory lock | acquire | one daemon per database |
| token managers | `ea-fortnox/auth.rs`, `ea-google/auth.rs`, `ea-kth/auth.rs` | access and refresh tokens | access_token | rotation against crash |
| bank import | `ea-fortnox/bank_import` | the proposal workbook | run_post | idempotency by marker |
| domain arithmetic | `ea-fortnox/domain` | none | rounding, VAT, vouchers | numeric edges |

How they interact. `ea-propose` (the model's only way to act) and the `ea`
command line send requests over the IPC socket. `propose` goes to
`Executor::submit`, which asks the policy, inserts the row, and then rejects,
queues or runs it; a queued row is put in the Telegram chat with two buttons. A
tap comes back through the update loop, which handles one update at a time; `ea
approve` comes back over IPC, any number at once. Both make the same conditional
UPDATE and then call the executor, which calls the connector through the
registry. The scheduler runs the jobs (poll, triage, briefings, retention); the
triage job expires proposals. At start the daemon takes its locks, sweeps what
the last process left, and only then binds the socket and spawns the update loop.

What makes each part correct is said with its module (section 2) and its run
(section 3); what is left out is in section 5. `PROJECT.json` lists the hazards
line by line, with the properties about each.

## 2. Modules

| module | models |
|---|---|
| `ActionPromise` | the abstract specification: what the gate promises its owner |
| `ActionGate` | the action gate: store, policy, executor, runs, recovery, deciders, life cycle of the process |
| `ThreadPromise` | the abstract specification: what the conversation promises its owner |
| `Conversation` | the Telegram update loop with its two durable marks, the chat service behind it and behind `ea chat`, the session runner's outcomes, the life cycle of the process |
| `Scheduler` | the tick loop, the overlap guard, the circuit breaker with its alerts and its manual reset, the owner's durable pause, the drain of a shutdown |
| `Attention` | events, triage, the notification policy and log, the session budget, the briefings |
| `Calendar` | schedules, the budget's day and the quiet hours against time zones |
| `Registry` | the registry's slots, gates, cached clients and child processes |
| `Grants` | the three token managers over one token file |
| `BankRules`, `Ledger` | the bank import: matching, coding and vouchers as operators, and the workbook, the runs and the books as a system |
| `Deadlines`, `Watch` | the tax deadlines as operators, and what the five connectors report, under which ids, against what retention forgets |
| `MC...` | values of constants, and the symmetry of model values, for TLC |
| `...Proofs` | the theorems of the module they are named after (`TimeProofs`: those of `Calendar` and `Watch`) |

The components meet at few places. `ActionGate` models the taps the update loop
delivers, `Conversation` the messages, and in each the other is an update (a
request) that passes without touching the component's state. `Scheduler` knows
of the jobs only through their success or failure; `Attention` has what three of
them do, statement by statement, and takes from the scheduler that no job
overlaps itself (`NoOverlap`). `Attention` counts chat sessions as the budget
does, and leaves to `Calendar` when a schedule is due and when the day begins.
The executor's call is one request and one answer in `ActionGate`; `Registry`
has the clients such a call goes through, and `Grants` the tokens the child on
the other side holds. `Watch` is the content of the polls `Attention` records:
there a poll is one event with a payload, here a whole answer is recorded at
once.

### ActionGate

State and its counterpart:

| variables | in the code |
|---|---|
| `status`, `stamped`, `tool`, `due` | columns `status`, `executed_at IS NOT NULL`, `connector`+`tool`, `expires_at <= now` of `actions` |
| `runs` | the `runs` rows of kind `execute` naming the action, counted by outcome |
| `swept`, `reported` | rows whose `reason` is `STRANDED_REASON`; digest lines of the sweep |
| `pc`, `act`, `outcome`, `told` | where the future serving a request is suspended, and its locals |
| `inFlight` | `Executor.in_flight` |
| `todo`, `sweeping` | the sweep's list of rows, and the row between its UPDATE and its digest line |
| `proc` | down, starting (locks held, sweeping), up, stopping |
| `sent`, `wire`, `shown` | outside the daemon: requests handed to the connector, what became of the last, buttons in the chat |
| `human`, `trouble` | history (rows a human approved) and the count of things gone wrong |

A *task* is a future of the daemon serving one request at a time. `Poller` is
the update loop; `Ipc` tasks are connections of the socket; a `Redriver` calls
`execute_approved` on a row it did not approve, which no caller does today but
the executor's documentation answers for. Each action is what happens between
two awaits: one SQL statement, one connector call, one message. A request to
execute is `Claim` (in-memory set), `Get`, `StartRun`, `Stamp`
(`claim_for_execution`), `Call`, then `Receive` or `GiveUp`, `Record`
(`mark_executed` / `mark_failed`) and `Finish`. The connector is on the other
side of `wire`: it may apply or refuse a request at any time after it was sent,
also after its caller gave up. `StoreFault`, `RecordFault`,
`StampUnacknowledged`, `ApproveUnacknowledged` and `DecisionFault` are failing
statements, with and without effect; `Crash` is the death of the process at any
point, the sweep included; `Sigterm`, `PollerStops` and `Stop` are the shutdown.

Abstracted: previews, arguments, rationales, result texts and token counts;
time, of which only "the deadline passed" is left; the policy file, of which the
mode of each tool is left; the owner checks on a tap, of which the fact that
only the owner's taps are handled is left.

### ActionPromise

Six phases and a count of attempts per action: it is asked for, granted or
dropped once, attempted at most once and only when granted, and concluded for
good. `ActionGate` implements it under `Phase(a)`: an approved row is *granted*
until a request has been handed to the connector and *attempted* after it.

### Conversation

| variables | in the code |
|---|---|
| `posted`, `forgotten` | Telegram's side: the updates it received for the bot, and the highest one `getUpdates` confirmed |
| `offset`, `handled` | the `kv` rows `telegram.update_offset` and `telegram.handled_through` |
| `thread`, `stored` | the `messages` of the conversation in order, and `conversations.claude_session` as the set of turns that session has been through |
| `started`, `open` | the `runs` rows of kind `chat`, per turn |
| `loop`, `at`, `upto` | where `poll_once` is suspended, in which update of which batch |
| `holder` | who holds `ChatService.turn` |
| `pc`, `resume`, `got` | where each turn's future is suspended, the session it resumes, how it ended |
| `runner`, `proc` | whether startup found a `claude`; the life of the process |
| `told`, `named`, `hurt`, `trouble` | history: what the owner was told, whose session reported its id, who met a store fault; and the count of things gone wrong |

An update is polled (`Poll`), compared with the handled mark (`Check`), claimed
(`Mark`), dispatched (`Reply` when the turn it queued is over) and its offset
written (`Advance`). A turn is `Ask` (lock, conversation, the question),
`Resume`, `Bill` (the `runs` row), `Session`, `Close` (the row again), `Bind`
(the new session id) and `Answer`. `TurnFault`, `LoopFault` and `PollFault` are
failing statements, with and without effect, and failing polls; `Drop` is what
dropping a future releases: the lock, and nothing durable. `Sigterm` drops the
loop first and the connections afterwards, in the order of `main`.

Abstracted: texts, prompts, facts and costs; the pauses and the backoff, of
which "later" is left; the limit on a batch (a batch is everything
unconfirmed). Updates that are no message of the owner (taps, strangers, bots,
other chats, stickers) are one kind, `other`, that passes the loop without a
turn. Assumed of Telegram, as the code does: ids increase, and nothing is
dropped before it is confirmed. There is one conversation, because `current` is
the only insert and retention keeps the newest. tokio's mutex is fair and the
model's is not, which only adds behaviours; `TurnsEnd` holds all the same,
because only finitely many turns exist. A session that failed is not counted as
remembering its turn.

### ThreadPromise

A transcript and what the owner has heard: each message is asked once, an answer
is written only right under its question, nothing is taken back, and nobody hears
of an answer that is not in the transcript. `Conversation` implements it with
`heard <- told`; that questions and answers never interleave is the lock's work.

### Scheduler

| variables | in the code |
|---|---|
| `running`, `tripped`, `failures`, `cooldown`, `reason`, `since`, `pushed` | the fields of `JobState`; `last_error` as whether there is one, `last_started` and `last_health_push` as ages |
| `alive`, `pc`, `seen`, `age` | the spawned invocations of a job: how many, where, the count fetched, the age of the tick's `now` |
| `tpc`, `todo`, `cur`, `view`, `spawned`, `inFlight` | where the tick is, the jobs before it, what it read, and the join handles, its own and the kept ones |
| `rpc`, `rjob` | the next field a `reset` clears |
| `paused`, `durable`, `asked`, `restore` | `Scheduler.paused`, the `kv` row `scheduler.paused`, requests between the two, what `restore_pause` read |
| `proc`, `waiting`, `drained` | the life of the process; what `drain` took and returned |
| `streak`, `mixed`, `fresh`, `alerted`, `owed`, `word`, `clash`, `trouble` | history: failures since the last success; failures recorded during a reset; trips not closed and the owner's knowledge of them; jobs in flight at the signal; the owner's last answered wish and whether it overlapped another; the count of things gone wrong |

The runtime has several threads and `tick`, `record_success`, `record_failure`
and `reset` take no common lock, so a step is one access to an atomic or a lock:
a reset can fall between any two lines of a failure being recorded. The read of
the cooldown and the comparison under the lock of `last_started` are one step
(only a reset writes the cooldown of a claimed job). `ThenClear` and the
disjuncts of `Reset` are the six assignments of `Scheduler::reset` in order.

Time is counted in ages up to the point from which nothing distinguishes them.
It does not pass for a tick, which reads the clock once, nor during the six
assignments of a reset. An invocation lasts at most `Repush` (six hours in the
code): everything a job awaits has a deadline. `Threshold`, `Interval` and the
cooldowns are constants; the interval is the same for every job.

Abstracted: the bodies of the jobs, of which success or failure is left (a panic
is a failure, as `catch_unwind` makes it), the texts, the push itself, which
succeeds or not. A crash before the daemon answers a pause or a resume leaves no
answered wish, and `KeptWord` says nothing until the next one.

### Attention

| variables | in the code |
|---|---|
| `version`, `triaged`, `attempts` | the `events` row: its payload (0: no row), `triaged_at IS NOT NULL`, `triage_attempts` |
| `logged` | `kv` `notify.sent`: the instants of the send history, in order |
| `front`, `back`, `overflowed` | `notify.digest` as the stretch of all lines ever pushed that it still holds, and `notify.digest_dropped` |
| `anchor` | `schedules.last_run_at` of each briefing |
| `spent`, `chatted` | the `runs` rows the budget counts, and those of chat turns, as their instants in order |
| `tpc`, `tnow`, `read`, `batch`, `todo`, `at`, `answer`, `recent` | where `run_triage` is suspended, and its locals |
| `bpc`, `sf`, `sb` | where each briefing is suspended, and the digest's prefix it read |
| `clock`, `setup`, `proc` | time; whether startup found a `claude` and a Telegram bot; the process |
| `basis`, `fate`, `rung`, `told`, `mailed`, `first`, `spoke`, `trouble` | history |

A poll (`RunWatchPoll`), a triage pass and each briefing are jobs: they
interleave, and each is alone. A pass reads the untriaged rows with their order
and limit, drops the muted ones, asks the budget, opens a session, charges an
attempt to each row of the batch, abandons those without a score too often, and
for each score stamps the row (`StampScore`), asks the policy, and rings
(`Notify`, then `LogSend`) or holds a line (`HoldBack`). A briefing claims its
occurrence before anything else (`Claim`), gathers its material, asks the
budget, runs its session, sends, and drops the prefix it read (`ClearDigest`);
where no text comes it sends the short line instead. `PassFails`,
`BriefingFails` and `Crash` are faults with and without effect and the death of
the process.

Abstracted: a payload is a version, a score is high or low, a briefing's
material is whether there is any. The prompt, its fencing and the texts are left
out. A tick of the clock stands for any length of time; the quiet hours are
empty in the runs, since `Calendar` checks them.

`UntoldIsCounted` is the property one would argue about: the briefing drops a
prefix it read minutes ago, and the cap may have moved the digest under it, so
lines nobody saw are destroyed; but each stands for one that the cap counted as
discarded although the briefing carried it, and the count shown to the owner
never understates. `BudgetHolds` states what the code gives: asking and spending
are two statements, so a day's limit may be passed by one per further job.

### Calendar

`zone` (the offset in force at each instant), `clock`, `proc`, and one row of
`schedules`: `cron`, `enabled`, `anchor`. Instants are ticks; an expression is a
set of times of day. `DueIsTheWallClock` compares `Schedule::due`, which lists
candidates, resolves each by `local_instant` and looks for one after the anchor,
with what a person reading the wall clock would say. `IsQuiet` and `DayStart`
are compared with definitions over the circle of the day and the calendar's
page. `ZoneAssumption` says what a zone may do: offsets differ by less than a
day, a clock that goes forward skips no more than `MAX_GAP_MINUTES`, and what it
skips no later change shows. Real zones do no other: gaps of an hour, a spring and
an autumn months apart (the comment on `MAX_GAP_MINUTES` says so). Not modelled:
cron's parser, dates and weekdays, and the bound on candidates
(`MAX_CANDIDATES`), which no daily expression meets.

### Registry

| variables | in the code |
|---|---|
| `cached`, `holder` | `Slot.client`, and who holds `Slot.connecting`, for a connector and a generation of the map |
| `round` | the generation of `Registry.slots`: a shutdown drains the map |
| `overtaken` | history: the slots drained while a call was connecting through them |
| `state`, `home`, `told` | each child process with its service loop; the slot it was spawned for; whether it was cancelled |
| `pc`, `slot`, `client` | where each call is suspended, the slot and the client it holds on to |

A call looks at the cache, queues for the gate, looks again, spawns, shakes
hands, stores, and calls; it evicts by identity only what it used, and discards
only a client whose handshake or transport failed. A slow answer evicts nothing.
A shutdown drains the map while connections are in progress; such a call stores
its client in a slot nobody will look into, where nobody tells it to stop, and a
call made after the shutdown spawns another beside it. `OneLiveClient` therefore
says that a connector has one live client, and one more for each slot that a
shutdown overtook in this way (`overtaken`); the daemon shuts the registry down
once, on its way out. Children wedge and die at any time. Not modelled:
manifests, arguments, results.

### Grants

`style` picks the token manager. `storedA`, `storedR`, `stale` are the token
file; `up`, `gate`, `generation`, `memo` a process and its locks; `pc`, `token`,
`forced`, `seen`, `heldA`, `heldR`, `newA`, `newR` a request and its locals;
`minted`, `goodA`, `goodR` the provider; `consent` what `authorize` holds between
the exchange and the write; the rest is history.

Two processes overlap when a discarded child outlives its eviction, and
`authorize` writes the same file beside them; nothing else does. Fortnox and
Microsoft rotate the refresh token, Google does not. Assumed of the providers: a
new consent leaves earlier grants alive, and a Microsoft answer carries a rotated
token. Left out: a blank refresh token sent by Google, which that manager would
save. In the Fortnox manager a forced caller that arrives after a renewal asks
for a second one, since only those who waited are spared; `HerdIsShared` is about
the herd that waited.

### BankRules and Ledger

`BankRules` has matching (`Pairs`, the `Queue` in the order `Nearer`, the greedy walk
`TakenOf`), coding
(`CodeLine`, `ResolveVat`), the split of a gross amount and the voucher, in
hundredths of a krona with the roundings of the code as quotients of integers.
`Ledger` has the workbook (`seb`, `kvitton`, and the proposal's rows in `rows`,
`konto`, `rate`, `figure`, `godkann`), the books (`booked`, `voucher`), one run of
`run_post` (`pc`, `at`, `commit`, `marked`, `failed`) and the owner, who adds
lines and receipts and writes J, accounts and figures between runs. A statement
may hold a line twice: its rows then share a `rad_id`, and each proposal gives
both the cells of the last one, its J included. `own` and `signed` remember where
the owner wrote. A second purchase like one already booked is taken for booked:
the marker of the first is found, and the row is skipped. A run reads
the markers of the financial year once, and then goes row by row; an answer may
be lost after the voucher was booked, the run may stop between any two rows, and
both are repeated.

The code has no caller yet ("UNREACHABLE AS SHIPPED"): that one run posts at a
time is an assumption. Not modelled: the spreadsheet format and its non-atomic
write, malformed dates, `unmatched_receipts`, the machine-owned columns, the
rounding of amounts read from the sheet.

Behaviour a reader may not expect, kept in the model: a first proposal writes a
VAT figure of 0 as a value, and a receipt recorded later is merged under that
zero as if the owner had written it.

### Deadlines and Watch

| variables | in the code |
|---|---|
| `world`, `now` | the connector, its accounts and things; the day |
| `open`, `day`, `fault` | the services' side: what there is, when it starts, arrived or is due, what an account fails with |
| `rows` | `events` by external id: payload, `created_at`, `triaged_at IS NOT NULL` |
| `lastOk`, `told`, `dropped`, `moves`, `breaks`, `seen`, `heard`, `turns` | history and bounds |

`Watch` asks what a connector's answer turns into. A row is known by its external
id; a changed payload opens it again for triage, the same payload is nothing
(`Record`). `PollGoogle` and `PollKth` answer per account, with a row for each
account that could not be read, and fail when all do; `PollNotion`, `PollCanvas`
and `PollFortnox` fail as a whole. `FindConflicts` is the sorted scan, over any
order in which events that start together are listed. `ListUnread` is any
`MaxUnread` of the unread, since the request has a `$top` and no order; the
documentation speaks of the oldest as those that are left out. `Prune` deletes
triaged rows by the day they were created, and a thing still reported is then
news again. `NewsIsNotRepeated` allows that once in a retention period and no more
often, so a retention that deletes too early breaks it. The unit of time is a day.

`Deadlines` computes on the Gregorian calendar (leap years every fourth year,
right to 2099), from 1 January 2024 on; `CalendarGoesOn` says that `LastMonth` lies
beyond what a run looks ahead to. `DeadlinesComeInTime` holds the record against
`LawfulDeadlines`, which is stated from the period that is declared and not from
the month of filing. Movable feasts are absent by the code's own decision.

Not modelled: HTTP, paging, parsing, the connectors' other tools.

## 3. Runs

| run | instance | shows |
|---|---|---|
| `gate` | 2 actions, the poller and one IPC client, 3 tools (auto, deny, no rule), 2 troubles; 682 000 states | at most one call, truth of the record, `KeepsPromise` |
| `gate_redrive` | 1 action, the poller, one client, two re-drivers, at most 2 attempts to run it, 2 troubles, with fairness; 102 000 states | the two claim layers; requests end, approvals conclude, stranded rows are resolved |
| `conversation` | 2 updates, one `ea chat` message, 1 trouble, with fairness; 160 000 states | delivery and billing at most once, an honest ledger, `KeepsPromise`, every message taken up and ended |
| `scheduler` | 1 job, threshold 2, one owner's request at a time, 1 trouble, with fairness; 290 000 states | no overlap, a pause that survives, a drain that waits, retries that come |
| `attention` | 2 events (one changes once, one of the payloads is muted), a cap of one digest line, one interruption per window of 2, 1 session per day of 2 ticks, 1 briefing due once, three setups, 1 trouble; 1 500 000 states | what the owner is not told is counted, one verdict per trouble, the rate, the budget, one briefing per occurrence, never a silent morning |
| `attention_live` | 3 events, a batch of 1, 10 sessions, no clock, 1 trouble, with fairness; 105 000 states | every event is scored, dropped or given up on |
| `calendar` | 45 zones that skip or repeat up to two ticks of a day of 8, 3 quiet windows, 3 days; 70 000 states | due is what the wall clock says; the budget's day; quiet hours |
| `registry` | 2 connectors, 2 calls again and again, 2 children, 1 shutdown, 2 children that wedge or die, with fairness for the calls of one; 339 000 states | one live child, and one more per connection a shutdown overtook; no waiting on a neighbour |
| `grants` | an old process with 2 requests, a new one with 1, 3 styles, 3 token pairs, 1 trouble; 793 000 states | no rotation lost, herds renew once, dead grants are asked about once, a retired token fails nobody |
| `ledger` | a statement of up to 2 lines out of 4, alike or not, 2 receipts, 2 edits, 2 financial years, 1 trouble; 697 000 states | nothing booked twice; nothing booked without the owner's J on the row or, of identical lines, on one of them; what is booked is its line; success is complete; matching is stable |
| `watch` | nine worlds: calendars of two accounts (two), Gmail, KTH, Notion, Canvas, and the books from February of a leap year, July and December; 482 000 states | nothing is announced again unless it changed, or once in a retention period; deadlines are on record a week early |
| `claim_outage` | one account beside another, two weeks | an outage that is not put before triage (section 6) |

Every property of a passing run is violated by a mutant of a definition it
depends on; `PROJECT.json` names it. The type invariants are in no run: they are
proved, or are part of an inductive invariant (section 4).

*Bounds and why they are enough.* In `gate`, rows never interact except through
the tasks that hold them and the statements that take many rows at once, so two
rows and two tasks show every pairwise interleaving; the redrive run has four
tasks on one row because the in-flight set is the one structure where a third
party could matter. `MaxTrouble` bounds crashes, signals and faults in one
behaviour: two give a crash during the recovery from a crash, a fault during a
shutdown, and a fault followed by a crash. `MaxRuns` bounds how often a re-driver
tries; it does not bound anybody else. Symmetry permutes actions, IPC tasks and
re-drivers, and the two requests of one process in `grants`, in safety runs only.
In `conversation`, two updates make a batch with a first and a last one, and
redelivery of a batch half done; with the typed message three turns contend for
the lock. In `scheduler` jobs share only the tick and the drain, never a field;
threshold 2 tells a count from a flag, the cooldown (1, capped at 2) backs off
once and meets its cap, and a window of two intervals has a second trip both
inside and outside of it. In `attention`, caps of one make the digest overflow
while the briefing writes, the second ring of an hour meet the limit, and the
budget be asked by two jobs at once; the briefing is due at the last instant so
that a pass is under way. A larger instance, whose briefing has two occurrences
and whose setups are all four (6 555 239 states, no error), was run once and
takes longer than a run should. In `grants`, three token pairs are a first grant,
a renewal and one more by a late request or by `authorize`. In `ledger`, two
lines contend for a receipt, or are one line twice; all lie in one financial year,
and the other year covers none of them, so that a run for it is refused; an
unknown line needs both edits, an account and a J. In `calendar`, the
instants span a change of the clock with a day on either side. In `watch`, the
worlds differ because what a connector may get wrong differs; days are stepped so
that a look-ahead, a grace period and retention each pass while a world lasts.

*Fairness.* `ActionGate`: weak fairness on `Advance(t)` of each task (the runtime
polls every ready future; each statement has the pool's deadline and each
connector call its two nested ones, so `GiveUp` is always there to be taken), on
`Start` (launchd's `KeepAlive`) and on `Sweep` (straight-line code). The
connector, the owner, the clock and every fault are unfair. `Conversation`:
weakly fair are the loop's next step (a poll has a timeout, and a failed one is
retried), the next step of a turn past the lock, the answer to a connection,
`Boot`, and the two steps of a shutdown. `Scheduler`: weakly fair are the tick
loop, each invocation, a reset under way and the life of the process up to the
next start; the clock is strongly fair, since it stands still for each tick and
the loop sleeps between them. `Attention`: weakly fair are the triage pass, each
briefing and `Boot`. `Registry`: for calls to the connector `Steady` only, strong
fairness on connecting (the gate is tokio's mutex, which is first come, first
served, and a handshake has a deadline) and weak fairness on the call (which has
one); calls to any other connector, and every child, owe nothing.

*Deadlock* is checked in `gate`, `gate_redrive`, `conversation`, `scheduler`,
`registry` and `calendar`: the system is never stuck. In `attention`,
`attention_live`, `grants`, `ledger`, `watch` and `claim_outage` bounded clocks and
counters run out, and the system may stop where nothing is left to do.

## 4. Proofs

| module | theorem | property |
|---|---|---|
| `ActionGateProofs` | `TypeCorrect` | `TypeOK` |
| | `CalledAtMostOnce` | `AtMostOneCall` |
| | `CalledByConsent` | `ConsentBeforeCall` |
| | `RefusalIsSafe` | `RefusedNeverCalled` |
| | `CallerKeepsItsRow` | `OutcomeIsTheCallers` |
| | `ExecutedIsTrue` | `ExecutedMeansApplied` |
| | `InFlightExcludes` | `OneExecutionAtATime` |
| | `ClaimIsOnRecord` | `ClaimLeavesTrace` |
| | `PromiseKept` | `KeepsPromise` (refinement of `ActionPromise`) |
| `ConversationProofs` | `DeliveryIsSafe` | `BilledOnce`, `ForgottenWasClaimed` |
| | `ThreadIsSafe` | `TypeOK`, `OneSessionAtATime`, `AnswersAreRemembered`, `LedgerIsHonest`, `FailureIsTold` |
| | `ThreadIsKept` | `KeepsPromise` (refinement of `ThreadPromise`) |
| | `LossIsBoundedHolds` | `LossIsBounded` |
| `SchedulerProofs` | `NoOverlapHolds` | `NoOverlap`, and `TypeOK` with it |
| | `BreakerHolds` | `TripIsEarned`, `TrippedSaysWhy` |
| | `DrainWaitsHolds` | `DrainWaits` |
| | `KeptWordHolds` | `KeptWord` |
| `AttentionProofs` | `UntoldIsCountedHolds` | `UntoldIsCounted` |
| | `LossIsOnePerTroubleHolds` | `LossIsOnePerTrouble` |
| | `InterruptionsAreRationedHolds` | `InterruptionsAreRationed` |
| | `BudgetCeilingHolds` | `BudgetHolds` |
| | `BriefedOncePerOccurrenceHolds` | `BriefedOncePerOccurrence` |
| | `MorningIsNeverSilentHolds` | `MorningIsNeverSilent` |
| `TimeProofs` | `DueIsTheWallClockHolds` | `DueIsTheWallClock` |
| | `BudgetDayIsTheLocalDayHolds` | `BudgetDayIsTheLocalDay` |
| | `QuietHoursGoRoundHolds` | `QuietHoursGoRound` |
| | `NewsIsNotRepeatedHolds` | `NewsIsNotRepeated` |
| | `DeadlinesComeInTimeHolds` | `DeadlinesComeInTime`, if `Retention >= HorizonDays` |
| `RegistryProofs` | `TypeIsKept` | `TypeOK` |
| | `OneLiveClientHolds` | `OneLiveClient` |
| `GrantsProofs` | `RotationIsKeptHolds` | `RotationIsKept` |
| | `HerdIsSharedHolds` | `HerdIsShared` |
| | `DeadGrantIsAskedOnceHolds` | `DeadGrantIsAskedOnce` |
| | `RetiredTokenIsNoFailureHolds` | `RetiredTokenIsNoFailure` |
| `LedgerProofs` | `NothingIsPostedTwiceHolds` | `NothingIsPostedTwice` |
| | `BookedByConsentHolds` | `BookedByConsent` |
| | `SuccessIsCompleteHolds` | `SuccessIsComplete` |
| | `MatchingIsStableHolds` | `MatchingIsStable` |
| | `VouchersAreTheirLinesHolds` | `VouchersAreTheirLines`, assuming `NobodyNamesTheBank` |

Each holds for every value of the constants that the module's own assumption
allows (`GateAssumption`, `ConversationAssumption`, ...: bounds are natural
numbers, and the values that mean "none" are not elements of the sets they stand
beside). TLC evaluates the assumption in every run of the module. Some proved
properties are in no configuration, because another one a run checks implies
them (`ConsentBeforeCall` and `AnswersAreRemembered` follow from the
refinements) or because a proof says more than a run.

None of the properties is inductive; each proof finds what has to be added.

*ActionGate.* `Inv` is five layers, each proved on top of the ones before it.
`Base`: types; *attribution* (a task past `idle` names a row; one inside
`Executor::run` has its row in `inFlight`; one past `StartRun` has an open run;
no task is busy while the process is down or sweeping); and mutual exclusion in
`run`, which needs attribution, since leaving `run` removes the row from the set
and would admit a third task if two were there. `Sending`: the stamp precedes
the call, is never taken back, and only its one writer is at `call` or beyond;
hence at most one call. `Deciding`: a row that was sent is approved or concluded,
one that is has consent, and one with a call out is still approved. `Applied`:
what the caller was told happened on the wire. `Traced`: a stamped row has a run.
A step either *departs* (`Departs` collects what all ways of ending a request do,
by `StepCases`) or is one of the few that go on, so each layer is proved over a
dozen cases and not forty. `PromiseKept` maps every step to a step of
`ActionPromise` or a stutter, using `Inv` for the guards.

*Conversation.* `LoopInv` orders the marks (`forgotten <= handled`, `offset <=
handled + 1`) and says that an update above the handled mark has no turn yet,
which makes a redelivery harmless. `TurnInv` says what a turn may rely on at
each point: past the lock it is the holder, its question ends the thread and the
session it resumes is still the stored one. A step of one turn is proved to keep
its own `TurnInv` (`TurnStepKeeps`) and, through the relation of lemma
`OthersUndisturbed`, that of every other turn, so no action is examined once per
pair. `LossIsBounded` needs a debt beside the count: a loop told to stop by a
signal, which is counted at once, may still drop the message in its hand
(`Owed`), and `InHandInv` says that it has only one in its hand.

*Scheduler.* `RunInv` says who holds the overlap flag: the tick from its claim to
the spawn, then the one invocation. `TripInv` keeps the count an invocation
fetched below the failures that happened, although a reset may zero the counter
between the two; `WhyInv` accounts for every message a reset clears before the
breaker trips. `DrainInv` follows a handle from the tick to the scheduler to the
drain. `OwnerInv` ties the answered wish to the row in the store, to the flag in
memory while the daemon is up, and to nothing else.

*Attention.* `UntoldIsCounted` is strengthened to `DigestInv`: the lines gone
that were not told, *or that the briefing in progress has read*, are no more
than the count. That makes the dangerous step provable: `DigestCleared` exchanges
what dropping the prefix destroys unread for what it carried after the cap had
counted it. Sending (`DigestSent`) and reading (`DigestGathered`) move lines into
and out of that set, and every other step moves the digest by a push
(`DigestPushed`) or not at all (`DigestUnmoved`). `VerdictInv` is the property
itself with the types it needs: a step loses no verdict (`NoneLost`), or is a
crash or fault and loses the one in hand (`OneLost`). The rate (`RationInv`) goes
through the log: the pass counts the hour before its own clock, and what it
counted is still an upper bound when it sends, since nobody else sends and its
clock is behind; the sends that rang and the entries of the log differ by one per
trouble and by the one between its send and its entry. The budget (`BudgetInv`)
counts beside the sessions of today those granted and not yet begun, each
briefing and the pass at most one. `OccurrenceInv` bounds what was sent and what
is still owed by the occurrences up to the anchor, which a claim moves past at
least one; `SpokenInv` carries "has spoken" from the send to the end, and across
the start of the process, before which there is nobody to speak through.

*Calendar.* Everything rests on `WallClockIsReached`: from the second day on, the
instant `local_instant` gives is the first at which the clock has got that far.
Comparing instants is then comparing wall-clock times, although the clock is not
monotone in the instant; this is where `ZoneAssumption` is used. Least elements
exist because the order of the naturals is well founded, a fact about sets that
the library has without an operator parameter.

*Watch.* `PolledIsContent`: what a poll says of an id is a function of the world
and the id alone, whatever else is reported and in whatever order; for a clash that
is so because its two ids are sorted. Then a balance (`Balance`) is kept for each
id: how often it was told, one if it waits for triage, one if the next poll would
record it anew, and one for an invoice that is yet to be overdue, are together no
more than its changes and deletions. A poll moves one from the third place to the second,
triage from the second to the first, and each step of the world pays for the one it
adds. `AgeInv` dates the deletions: each row is younger than all the retention
periods spent on its id before it, so there were no more deletions than there has
been time for.

*Deadlines.* `MonthsFollow` and `MonthsAreOrdered` are the arithmetic of the
calendar; a day is in one month, and for each there is one (`OneMonth`,
`MonthOfDay`). The ordinary due day and the two after it are no fixed holidays and
not all on a weekend, so the search that gives up after a fortnight finds what the
one that does not finds, in the month it started in (`DueInMonth`). A poll
therefore misses nothing in its horizon (`UpcomingIsComplete`), and what is
recorded was recorded within the horizon of its date (`TaxRowInv`): retention of at
least `HORIZON_DAYS` leaves it alone until it is over. With a shorter retention
the theorem does not hold, since a row may then be deleted while the connector is
down; `events_days` is 90 unless the owner sets it.

*Registry.* `KnownInv`: a child that runs and was not told to stop is cached in
its slot, or somebody is connecting to it; `GateInv`: connecting needs the gate,
and a gate that is taken guards an empty or closed cache; two running children of
one slot would have to be the same. `ShutdownInv` is what makes that a statement
about connectors: a running child of an earlier generation that was not told to
stop lives in a slot some shutdown overtook.

*Grants.* While nothing has failed and nobody withdrew the grant: what a request
is about to write is good, nobody else has it, and what `authorize` holds is
good and nobody else's (`InHandInv`, `OwnInv`, `ConsentInv`); with these, `Kept`
is inductive. Most steps are quiet (`Quiet`): they touch no refresh token. The
access tokens have an invariant of their own, `AccessInv`: who renews has the gate
of its process; a token issued and not yet written is nobody's (`SealedInv`), so
writing it makes the file differ from whatever a waiting request holds, or moves
the generation past the one it saw (`CoveredInv`); and a refused token that is
still in the file is the one remembered (`DeadInv`). `ServedInv` is what keeps a
retired token from failing a request: with one process and one token retired, a
request that forces a renewal has seen the dead one, so the next is alive.

*Ledger.* `PostedInv`: during a run, a line whose marker was not found has been
booked by this run alone, once for each row of it that is behind; a run begins
with the markers of the year that covers all its rows (`PostedStart`). `ConsentInv`
traces a J through the merges: it is the owner's own on that row, or the row has
an identical one and the owner once wrote a J on one of those.
`CompleteInv` says of a run that has nothing to report that every row
behind it which was to be booked is.

Matching and vouchers are facts about operators, for every statement and pile of
receipts, that an invariant then carries into the states. The order `Nearer` is
total, so finitely many pairs have a last one and can be sorted, and the sorted
queue holds each once (`QueueHoldsAll`); the walk over its first *n* is stable
for every *n* (`TakenIsStable`). The vouchers have two legs or three, whose totals
are computed out (`TwoLegs`, `ThreeLegs`); that an account is not the bank's and a
figure is a number (`SheetInv`) comes through the coding, the merge and the
owner's corrections. `NobodyNamesTheBank` is not idle: nothing in the code keeps
the owner from coding a row with 1930, and such a voucher balances and says
nothing of its line. Induction over the length of a queue or a sum is done with
sets of numbers (`AllNaturals`, from the least-element principle), as the
library's own induction takes an operator.

*Only model-checked*: the liveness properties (`StrandedIsResolved`,
`RequestsEnd`, `ApprovedConcludes`, `UpdatesAreTakenUp`, `TurnsEnd`,
`TrippedIsRetried`, `EventsAreSettled`, `NeighboursAreServed`), since fairness is
out of the prover's reach; and the findings of section 6, which are
counterexamples. Every safety property of the passing runs is a theorem.

## 5. What is not modelled

- `ea-propose` and `ea` only forward requests to the IPC methods that are
  modelled; they keep no state.
- `facts`: single inserts, supersedes and reads, with nothing to interact with.
- `claude_sessions`: rows about the owner's own sessions, reported by a hook of
  an external program in an order that program decides.
- Locks: that one daemon runs per database is an assumption of every module (the
  code takes a file lock and a Postgres advisory lock before the sweep).
- HTTP, HTML, MIME, spreadsheets, prompts and their fencing, configuration,
  manifests and logs: translations and I/O without state whose order matters.
  They are the larger part of the repository by lines.
- Child processes of sessions: of a session only its outcome is left.

## 6. Where the repository says otherwise

One run violates a sentence of the repository, which `PROJECT.json` quotes:
`claim_outage` (`OutagesAreTold`), on the documents of two connectors. An account
that stops answering is reported by a row with one id and, for one kind of
failure, one payload. Recording the same payload again keeps the row's triage. So
the second expiry of a grant, which the code calls a weekly certainty, is recorded
over the triaged row of the first and is not put before triage, until retention
has forgotten that row 90 days after it was created. A mended account leaves nothing that would change the row.

Others were met on the way and are stated in the modules without a run of their
own; a configuration that names the operator shows the counterexample.

- `NothingUnapprovedIsPosted` (`Ledger`): by `bank_import/mod.rs:36-38` nothing is
  posted without a human's J. Two bank lines with the same date, amount and text,
  which `match_rules.rs:19-20` calls two coffees, share a `rad_id`; the J on the last
  is copied to the other by the next proposal (`workbook.rs:462`), and one committed
  run books both. In the other direction a J on the first is lost to the blank of
  the second. `BookedByConsent`, checked and proved, is what does hold.
- `DeniedNeverCalled` (`ActionGate`): by `executor.rs:8-9` the connector of a denied
  action is never touched. The proposal is inserted as `proposed` and rejected by a
  second statement. After a crash or a fault in between it is open for decision,
  and an approval runs it.
- `NothingChangedIsTrue`: the answer to a failed action (`telegram.rs:503`) says that
  nothing changed on the other side. A deadline that passed is a failure too, and
  the connector may apply the call before or after it.
- `VerdictIsOfItsPayload` (`Attention`): a payload that changes while a session
  scores the old one is stamped with the old one's score (`jobs.rs:419`,
  `events.rs:463-471`), and is not scored again, although `events.rs:172-173` says
  that a changed payload is.
- `ShutdownWaitsForCalls` (`ActionGate`): a clean shutdown does not wait for an
  approved action mid-call; only scheduler jobs are drained.
- `SweepLeavesNothingApproved`: an approved row that was not yet claimed when the
  process died is not stranded, so no sweep finds it, and nobody can approve it
  again.
- `NewTripIsNews` (`Scheduler`): a manual reset answered while the alert of a trip
  is being sent clears the repush window, and the stamp that follows the send
  sets it again; the next trip, after a recovery the owner was told nothing of, is
  suppressed.

Smaller ones, without an operator: `already_handled` answers "it is being handled
now" of an approved row nobody is handling; `fail_stranded`'s documentation says
that a row in flight "has no stamp yet", but it has one from the claim on; the
sweep leaves the `runs` row of the action it fails `running`. A tick that began
before the pause may keep its handles after `drain` took the others, and `drain`
then returns true with those jobs running; a reset between the two halves of
`record_failure` leaves a breaker open with a zero count, and open without a
message; the socket is served before `restore_pause`, so a `resume` in that moment
is overridden in memory; two concurrent requests to pause and to resume may leave
the memory and the store different. The KTH poll takes the first unread messages
Graph lists, not the most recent ones, when there are more than its limit. "Recorded
once however often it is seen" (`ea-fortnox-mcp/src/watch.rs:77-78`,
`ea-canvas/src/tools.rs:96-97`) is true until retention has deleted the row, 90 days
after it was created; what is still unpaid or due then is recorded and announced
anew.

## 7. Plan

Done, in the order in which they were built: the gate, the conversation and the
scheduler with their proofs; attention and the calendar; the registry; the
grants; the ledger; the watch. What is worth doing next: the order of startup
(locks, sweep, schedules, socket) as a module that composes the life cycles the
modules now repeat; `claude_sessions`; prompt fencing as a pure algorithm; the
posting of expenses outside the bank import.
