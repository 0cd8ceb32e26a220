------------------------------ MODULE Scheduler -------------------------------
(***************************************************************************)
(* The periodic work of ea-daemon: the tick loop, the overlap guard, the   *)
(* circuit breaker of each job with its half-open retries and its one      *)
(* health push per trip, the breaker's manual reset, the owner's durable   *)
(* pause, and the drain of a shutdown.                                     *)
(*                                                                         *)
(* The runtime has several threads, so a step is one access to an atomic   *)
(* or a lock, one statement or one message: the tick, the invocation of a  *)
(* job, a reset and the owner's requests interleave between any two.       *)
(* Instants are kept as ages, counted up to the point from which nothing   *)
(* tells them apart; an instant never set is as old as that.               *)
(***************************************************************************)
EXTENDS Integers, FiniteSets

CONSTANTS
  Job,
  Request,      \* owner's pause and resume requests that can be in flight
  Threshold,    \* breaker_threshold
  Interval,     \* every job's interval
  Cooldown,     \* breaker_cooldown
  MaxCooldown,  \* max_breaker_cooldown
  Repush,       \* HEALTH_REPUSH_INTERVAL
  NoJob,        \* the tick, or a reset, is at no job
  MaxTrouble    \* bound: crashes, signals, faults and resets

ASSUME SchedulerAssumption ==
  /\ NoJob \notin Job
  /\ Threshold \in Nat \ {0} /\ Interval \in Nat /\ Repush \in Nat
  /\ Cooldown \in Nat /\ MaxCooldown \in Nat /\ Cooldown <= MaxCooldown
  /\ MaxTrouble \in Nat

VARIABLES
  \* JobState
  running,    \* the overlap guard
  tripped,
  failures,   \* failure_count, up to Threshold
  cooldown,
  reason,     \* whether last_error holds a message
  since,      \* age of last_started, up to the longest wait
  pushed,     \* age of last_health_push, up to twice Repush
  \* the invocation of each job
  alive,      \* how many futures of it there are
  pc,         \* where it is
  seen,       \* the failure count it fetched
  age,        \* age of the `now` it was spawned with
  \* the tick loop
  tpc,        \* where it is: "gone" when aborted
  todo,       \* jobs this tick has not come to
  cur,        \* the job it is at
  view,       \* whether it saw that job tripped
  spawned,    \* unfinished invocations whose handle this tick has yet to keep
  inFlight,   \* unfinished invocations whose handle is kept
  \* a reset, and the owner's pause
  rpc,        \* the next field `reset` clears
  rjob,
  paused,     \* Scheduler.paused
  durable,    \* kv: scheduler.paused
  asked,      \* per request: what it still has to record
  restore,    \* what restore_pause read
  \* the process
  proc,
  waiting,    \* handles the drain took, unfinished
  drained,    \* what it returned
  \* history and bounds
  streak,     \* failures since the last success, up to Threshold
  mixed,      \* jobs reset while a failure was being recorded
  fresh,      \* invocations whose trip is not closed yet
  alerted,    \* jobs the owner was told of since their breaker last closed
  owed,       \* invocations in flight at the signal, unfinished
  word,       \* the owner's last answered wish
  clash,      \* it was made while another was pending
  trouble

breakerVars == <<tripped, failures, cooldown, reason, pushed>>
runVars == <<running, alive, pc, seen, age>>
tickVars == <<tpc, todo, cur, view, spawned>>
drainVars == <<waiting, drained, owed>>
pauseVars == <<paused, durable, asked, restore, word, clash>>
resetVars == <<rpc, rjob>>
storyVars == <<streak, mixed, fresh, alerted>>

vars == <<breakerVars, since, runVars, tickVars, inFlight, resetVars, pauseVars,
          proc, drainVars, storyVars, trouble>>

Least(m, n) == IF m < n THEN m ELSE n
Most(m, n) == IF m < n THEN n ELSE m
Longest == Most(Interval, MaxCooldown)
Never == 2 * Repush

PC == {"idle", "body", "clear_reason", "clear_cooldown", "close",
       "clear_pushed", "set_reason", "look", "back_off", "trip", "window", "stamp", "end"}
Recording == {"look", "trip"}
ResetPC == {"tripped", "failures", "reason", "cooldown", "since", "pushed", "none"}
Wish == {"pause", "resume", "none"}

No == [j \in Job |-> FALSE]
Zero == [j \in Job |-> 0]

Init ==
  /\ running = No /\ tripped = No /\ reason = No
  /\ failures = Zero /\ alive = Zero /\ seen = Zero /\ age = Zero /\ streak = Zero
  /\ cooldown = [j \in Job |-> Cooldown]
  /\ since = [j \in Job |-> Longest]
  /\ pushed = [j \in Job |-> Never]
  /\ pc = [j \in Job |-> "idle"]
  /\ tpc = "gone" /\ todo = {} /\ cur = NoJob /\ view = FALSE
  /\ spawned = {} /\ inFlight = {}
  /\ rpc = "none" /\ rjob = NoJob
  /\ paused = FALSE /\ durable = FALSE /\ restore = "none"
  /\ asked = [r \in Request |-> "none"]
  /\ proc = "down" /\ waiting = {} /\ drained = FALSE
  /\ mixed = {} /\ fresh = {} /\ alerted = {} /\ owed = {}
  /\ word = "resume" /\ clash = FALSE /\ trouble = 0

Serving == proc \in {"starting", "up", "stopping", "draining"}
Trouble == trouble < MaxTrouble /\ trouble' = trouble + 1

-----------------------------------------------------------------------------
(* The tick: Scheduler::tick and maybe_spawn                                *)

tickFrame == <<breakerVars, resetVars, pauseVars, proc, drainVars, trouble>>

Tick ==
  /\ proc = "up" /\ tpc = "idle"
  /\ ~paused
  /\ tpc' = "claim" /\ todo' = Job
  /\ UNCHANGED <<cur, view, spawned, inFlight, since, runVars, storyVars, tickFrame>>

\* Mutant: the flag is set and not looked at.
ClaimBlind(j) ==
  /\ tpc = "claim" /\ j \in todo
  /\ todo' = todo \ {j}
  /\ running' = [running EXCEPT ![j] = TRUE] /\ cur' = j /\ tpc' = "look"
  /\ UNCHANGED <<view, spawned, inFlight, since, alive, pc, seen, age, storyVars,
                 tickFrame>>

\* The overlap guard: one compare_exchange.
Claim(j) ==
  /\ tpc = "claim" /\ j \in todo
  /\ todo' = todo \ {j}
  /\ \/ running[j] /\ UNCHANGED <<running, cur, tpc>>
     \/ ~running[j] /\ running' = [running EXCEPT ![j] = TRUE] /\ cur' = j /\ tpc' = "look"
  /\ UNCHANGED <<view, spawned, inFlight, since, alive, pc, seen, age, storyVars,
                 tickFrame>>

Look ==
  /\ tpc = "look"
  /\ view' = tripped[cur] /\ tpc' = "due"
  /\ UNCHANGED <<todo, cur, spawned, inFlight, since, runVars, storyVars, tickFrame>>

\* wait_for, as the tick saw the breaker.
Wait == IF view THEN Most(Interval, cooldown[cur]) ELSE Interval

\* last_started is moved and the invocation spawned, its guard inside it.
Spawn ==
  /\ tpc = "due" /\ since[cur] >= Wait
  /\ since' = [since EXCEPT ![cur] = 0]
  /\ alive' = [alive EXCEPT ![cur] = @ + 1]
  /\ pc' = [pc EXCEPT ![cur] = "body"]
  /\ age' = [age EXCEPT ![cur] = 0]
  /\ spawned' = spawned \cup {cur}
  /\ fresh' = fresh \ {cur}
  /\ tpc' = "claim" /\ cur' = NoJob /\ view' = FALSE
  /\ UNCHANGED <<running, seen, todo, inFlight, streak, mixed, alerted, tickFrame>>

NotDue ==
  /\ tpc = "due" /\ since[cur] < Wait
  /\ running' = [running EXCEPT ![cur] = FALSE]
  /\ tpc' = "claim" /\ cur' = NoJob /\ view' = FALSE
  /\ UNCHANGED <<alive, pc, seen, age, since, todo, spawned, inFlight, storyVars,
                 tickFrame>>

\* Mutant: the handles are discarded, as they used to be.
KeepNothing ==
  /\ tpc = "claim" /\ todo = {}
  /\ spawned' = {} /\ tpc' = "idle"
  /\ UNCHANGED <<todo, cur, view, inFlight, since, runVars, storyVars, tickFrame>>

\* Scheduler::retain: a handle that has finished is dropped, at once here.
Keep ==
  /\ tpc = "claim" /\ todo = {}
  /\ inFlight' = inFlight \cup spawned
  /\ spawned' = {} /\ tpc' = "idle"
  /\ UNCHANGED <<todo, cur, view, since, runVars, storyVars, tickFrame>>

\* The abort of a shutdown takes the loop at its sleep, never inside a tick.
TickAborted ==
  /\ proc \in {"stopping", "draining", "closing"} /\ tpc = "idle"
  /\ tpc' = "gone"
  /\ UNCHANGED <<todo, cur, view, spawned, inFlight, since, runVars, storyVars, tickFrame>>

TickStep == Tick \/ (\E j \in Job : Claim(j)) \/ Look \/ Spawn \/ NotDue \/ Keep

-----------------------------------------------------------------------------
(* One invocation: the spawned future, record_success, record_failure and   *)
(* report_trip                                                              *)

To(j, place) ==
  /\ pc' = [pc EXCEPT ![j] = place]
  /\ UNCHANGED <<running, alive, age, since, tickVars, inFlight, resetVars, pauseVars,
                 proc, drainVars, trouble>>

\* Mutant: a success leaves the failure count.
SucceedCounting(j) ==
  /\ pc[j] = "body" /\ To(j, "clear_reason")
  /\ streak' = [streak EXCEPT ![j] = 0]
  /\ UNCHANGED <<breakerVars, seen, mixed, fresh, alerted>>

Succeed(j) ==
  /\ pc[j] = "body" /\ To(j, "clear_reason")
  /\ failures' = [failures EXCEPT ![j] = 0]
  /\ streak' = [streak EXCEPT ![j] = 0]
  /\ UNCHANGED <<tripped, cooldown, reason, pushed, seen, mixed, fresh, alerted>>

ClearReason(j) ==
  /\ pc[j] = "clear_reason" /\ To(j, "clear_cooldown")
  /\ reason' = [reason EXCEPT ![j] = FALSE]
  /\ UNCHANGED <<tripped, failures, cooldown, pushed, seen, storyVars>>

ClearCooldown(j) ==
  /\ pc[j] = "clear_cooldown" /\ To(j, "close")
  /\ cooldown' = [cooldown EXCEPT ![j] = Cooldown]
  /\ UNCHANGED <<tripped, failures, reason, pushed, seen, storyVars>>

\* The breaker closes; what the owner was told of is over.
Closes(j) ==
  /\ tripped' = [tripped EXCEPT ![j] = FALSE]
  /\ fresh' = fresh \ {j} /\ alerted' = alerted \ {j}

Close(j) ==
  /\ pc[j] = "close"
  /\ To(j, IF tripped[j] THEN "clear_pushed" ELSE "end")
  /\ Closes(j)
  /\ UNCHANGED <<failures, cooldown, reason, pushed, seen, streak, mixed>>

ClearPushed(j) ==
  /\ pc[j] = "clear_pushed" /\ To(j, "end")
  /\ pushed' = [pushed EXCEPT ![j] = Never]
  /\ UNCHANGED <<tripped, failures, cooldown, reason, seen, storyVars>>

\* An error or a caught panic.
Fail(j) ==
  /\ pc[j] = "body" /\ To(j, "set_reason")
  /\ failures' = [failures EXCEPT ![j] = Least(@ + 1, Threshold)]
  /\ seen' = [seen EXCEPT ![j] = Least(failures[j] + 1, Threshold)]
  /\ streak' = [streak EXCEPT ![j] = Least(@ + 1, Threshold)]
  /\ UNCHANGED <<tripped, cooldown, reason, pushed, mixed, fresh, alerted>>

\* Mutant: only a failure that does not trip says why.
SetReasonEarly(j) ==
  /\ pc[j] = "set_reason" /\ To(j, "look")
  /\ reason' = [reason EXCEPT ![j] = seen[j] < Threshold]
  /\ mixed' = IF rjob = j THEN mixed ELSE mixed \ {j}
  /\ UNCHANGED <<tripped, failures, cooldown, pushed, seen, streak, fresh, alerted>>

SetReason(j) ==
  /\ pc[j] = "set_reason" /\ To(j, "look")
  /\ reason' = [reason EXCEPT ![j] = TRUE]
  /\ mixed' = IF rjob = j THEN mixed ELSE mixed \ {j}
  /\ UNCHANGED <<tripped, failures, cooldown, pushed, seen, streak, fresh, alerted>>

\* A half-open attempt failed, the threshold is reached, or neither.
Judge(j) ==
  /\ pc[j] = "look"
  /\ To(j, IF tripped[j] THEN "back_off"
           ELSE IF seen[j] >= Threshold THEN "trip" ELSE "end")
  /\ UNCHANGED <<breakerVars, seen, storyVars>>

\* Mutant: the cooldown doubles without its cap.
BackOffForever(j) ==
  /\ pc[j] = "back_off" /\ To(j, "end")
  /\ cooldown' = [cooldown EXCEPT ![j] = 2 * @]
  /\ UNCHANGED <<tripped, failures, reason, pushed, seen, storyVars>>

BackOff(j) ==
  /\ pc[j] = "back_off" /\ To(j, "end")
  /\ cooldown' = [cooldown EXCEPT ![j] = Least(2 * @, MaxCooldown)]
  /\ UNCHANGED <<tripped, failures, reason, pushed, seen, storyVars>>

Trip(j) ==
  /\ pc[j] = "trip" /\ To(j, "window")
  /\ tripped' = [tripped EXCEPT ![j] = TRUE]
  /\ fresh' = fresh \cup {j}
  /\ mixed' = IF rjob = j THEN mixed \cup {j} ELSE mixed
  /\ UNCHANGED <<failures, cooldown, reason, pushed, seen, streak, alerted>>

\* now is the clock of the tick that spawned the invocation.
InWindow(j) == pushed[j] - age[j] < Repush

Suppress(j) ==
  /\ pc[j] = "window" /\ InWindow(j) /\ To(j, "end")
  /\ UNCHANGED <<breakerVars, seen, storyVars>>

\* The push is sent and answered, or fails; without a pusher nothing is sent.
Push(j) ==
  /\ pc[j] = "window" /\ ~InWindow(j)
  /\ \/ To(j, "stamp") /\ alerted' = IF j \in fresh THEN alerted \cup {j} ELSE alerted
     \/ To(j, "end") /\ UNCHANGED alerted
  /\ UNCHANGED <<breakerVars, seen, streak, mixed, fresh>>

Stamp(j) ==
  /\ pc[j] = "stamp" /\ To(j, "end")
  /\ pushed' = [pushed EXCEPT ![j] = age[j]]
  /\ UNCHANGED <<tripped, failures, cooldown, reason, seen, storyVars>>

\* Mutant: the flag is cleared only after a success.
EndLeaking(j) ==
  /\ pc[j] = "end"
  /\ running' = IF reason[j] THEN running ELSE [running EXCEPT ![j] = FALSE]
  /\ alive' = [alive EXCEPT ![j] = @ - 1]
  /\ pc' = [pc EXCEPT ![j] = "idle"]
  /\ seen' = [seen EXCEPT ![j] = 0] /\ age' = [age EXCEPT ![j] = 0]
  /\ spawned' = spawned \ {j} /\ inFlight' = inFlight \ {j}
  /\ waiting' = waiting \ {j} /\ owed' = owed \ {j}
  /\ UNCHANGED <<breakerVars, since, tpc, todo, cur, view, resetVars,
                 pauseVars, proc, drained, storyVars, trouble>>

\* The future is dropped, and its RunningGuard with it.
End(j) ==
  /\ pc[j] = "end"
  /\ running' = [running EXCEPT ![j] = FALSE]
  /\ alive' = [alive EXCEPT ![j] = @ - 1]
  /\ pc' = [pc EXCEPT ![j] = "idle"]
  /\ seen' = [seen EXCEPT ![j] = 0] /\ age' = [age EXCEPT ![j] = 0]
  /\ spawned' = spawned \ {j} /\ inFlight' = inFlight \ {j}
  /\ waiting' = waiting \ {j} /\ owed' = owed \ {j}
  /\ UNCHANGED <<breakerVars, since, tpc, todo, cur, view, resetVars,
                 pauseVars, proc, drained, storyVars, trouble>>

Recovers(j) == Succeed(j) \/ ClearReason(j) \/ ClearCooldown(j) \/ Close(j) \/ ClearPushed(j)
Breaks(j) ==
  \/ Fail(j) \/ SetReason(j) \/ Judge(j) \/ BackOff(j) \/ Trip(j)
  \/ Suppress(j) \/ Push(j) \/ Stamp(j)

RunStep(j) == Recovers(j) \/ Breaks(j) \/ End(j)

-----------------------------------------------------------------------------
(* Scheduler::reset, field by field, and the clock                          *)

resetFrame == <<runVars, tickVars, inFlight, pauseVars, proc, drainVars, streak>>

ResumeJob(j) ==
  /\ Serving /\ rpc = "none"
  /\ Trouble
  /\ rpc' = "tripped" /\ rjob' = j
  /\ UNCHANGED <<breakerVars, since, mixed, fresh, alerted, resetFrame>>

ThenClear(field) ==
  /\ rpc' = field
  /\ rjob' = IF field = "none" THEN NoJob ELSE rjob
  /\ mixed' = IF pc[rjob] \in Recording THEN mixed \cup {rjob} ELSE mixed
  /\ UNCHANGED <<trouble, resetFrame>>

Reset ==
  \/ /\ rpc = "tripped" /\ ThenClear("failures")
     /\ Closes(rjob)
     /\ UNCHANGED <<failures, cooldown, reason, pushed, since>>
  \/ /\ rpc = "failures" /\ ThenClear("reason")
     /\ failures' = [failures EXCEPT ![rjob] = 0]
     /\ UNCHANGED <<tripped, cooldown, reason, pushed, since, fresh, alerted>>
  \/ /\ rpc = "reason" /\ ThenClear("cooldown")
     /\ reason' = [reason EXCEPT ![rjob] = FALSE]
     /\ UNCHANGED <<tripped, failures, cooldown, pushed, since, fresh, alerted>>
  \/ /\ rpc = "cooldown" /\ ThenClear("since")
     /\ cooldown' = [cooldown EXCEPT ![rjob] = Cooldown]
     /\ UNCHANGED <<tripped, failures, reason, pushed, since, fresh, alerted>>
  \/ /\ rpc = "since" /\ ThenClear("pushed")
     /\ since' = [since EXCEPT ![rjob] = Longest]
     /\ UNCHANGED <<breakerVars, fresh, alerted>>
  \/ /\ rpc = "pushed" /\ ThenClear("none")
     /\ pushed' = [pushed EXCEPT ![rjob] = Never]
     /\ UNCHANGED <<tripped, failures, cooldown, reason, since, fresh, alerted>>

\* Time passes, but not for a tick, which has read the clock, nor for a reset.  No
\* invocation outlives Repush: what a job awaits has deadlines.
Elapse ==
  /\ proc # "down" /\ tpc \in {"idle", "gone"} /\ rpc = "none"
  /\ \A j \in Job : alive[j] > 0 => age[j] < Repush
  /\ since' = [j \in Job |-> Least(since[j] + 1, Longest)]
  /\ pushed' = [j \in Job |-> Least(pushed[j] + 1, Never)]
  /\ age' = [j \in Job |-> IF alive[j] > 0 THEN age[j] + 1 ELSE age[j]]
  /\ UNCHANGED <<tripped, failures, cooldown, reason, running, alive, pc, seen, tickVars,
                 inFlight, resetVars, pauseVars, proc, drainVars, storyVars, trouble>>

-----------------------------------------------------------------------------
(* The owner's pause: Daemon::pause, resume and restore_pause               *)

ownerFrame == <<breakerVars, since, runVars, tickVars, inFlight, resetVars, drainVars,
                storyVars>>

Pending == {r \in Request : asked[r] # "none"}

\* In memory first.
Ask(r, wish) ==
  /\ Serving /\ asked[r] = "none"
  /\ paused' = (wish = "pause")
  /\ asked' = [asked EXCEPT ![r] = wish]
  /\ clash' = (Pending # {} \/ proc = "starting")
  /\ word' = "none"
  /\ UNCHANGED <<durable, restore, proc, trouble, ownerFrame>>

\* Then durably, and the owner is answered.
Record(r) ==
  /\ Serving /\ asked[r] # "none"
  /\ durable' = (asked[r] = "pause")
  /\ asked' = [asked EXCEPT ![r] = "none"]
  /\ word' = IF clash THEN word ELSE asked[r]
  /\ UNCHANGED <<paused, restore, clash, proc, trouble, ownerFrame>>

\* The write fails, having taken effect or not: the owner is told of an error.
RecordFault(r) ==
  /\ Serving /\ asked[r] # "none"
  /\ Trouble
  /\ durable' \in {durable, asked[r] = "pause"}
  /\ asked' = [asked EXCEPT ![r] = "none"]
  /\ UNCHANGED <<paused, restore, word, clash, proc, ownerFrame>>

-----------------------------------------------------------------------------
(* The life of the process                                                  *)

lifeFrame == <<breakerVars, since, runVars, inFlight, resetVars, storyVars>>

\* The socket is served before the pause is restored.
Boot ==
  /\ proc = "down"
  /\ proc' = "starting"
  /\ UNCHANGED <<pauseVars, tickVars, drainVars, trouble, lifeFrame>>

\* An unreadable state counts as no pause.
RestoreRead ==
  /\ proc = "starting" /\ restore = "none"
  /\ \/ restore' = (IF durable THEN "pause" ELSE "resume") /\ UNCHANGED <<word, trouble>>
     \/ Trouble /\ restore' = "resume" /\ word' = "none"
  /\ UNCHANGED <<paused, durable, asked, clash, proc, tickVars, drainVars, lifeFrame>>

Restore ==
  /\ proc = "starting" /\ restore # "none"
  /\ restore' = "none"
  /\ paused' = (paused \/ restore = "pause")
  /\ proc' = "up" /\ tpc' = "idle"
  /\ UNCHANGED <<durable, asked, word, clash, todo, cur, view, spawned, drainVars,
                 trouble, lifeFrame>>

\* Mutant: the shutdown's pause is recorded like the owner's.
SigtermDurable ==
  /\ proc = "up"
  /\ Trouble
  /\ proc' = "stopping"
  /\ paused' = TRUE /\ durable' = TRUE
  /\ owed' = {j \in Job : alive[j] > 0} \ spawned
  /\ UNCHANGED <<asked, restore, word, clash, tickVars, waiting, drained, lifeFrame>>

\* The scheduler is paused, the owner's pause is not touched.
Sigterm ==
  /\ proc = "up"
  /\ Trouble
  /\ proc' = "stopping"
  /\ paused' = TRUE
  /\ owed' = {j \in Job : alive[j] > 0} \ spawned
  /\ UNCHANGED <<durable, asked, restore, word, clash, tickVars, waiting, drained, lifeFrame>>

\* Scheduler::drain takes the handles kept so far,
Drain ==
  /\ proc = "stopping"
  /\ proc' = "draining"
  /\ waiting' = inFlight /\ inFlight' = {}
  /\ UNCHANGED <<breakerVars, since, runVars, resetVars, storyVars, pauseVars, tickVars,
                 drained, owed, trouble>>

\* and waits until they have finished, or for SHUTDOWN_DRAIN.
Drained ==
  /\ proc = "draining"
  /\ proc' = "closing"
  /\ drained' = (waiting = {})
  /\ waiting' = {}
  /\ UNCHANGED <<owed, pauseVars, tickVars, trouble, lifeFrame>>

\* Everything but the recorded pause is memory.
Dies ==
  /\ proc' = "down"
  /\ running' = No /\ tripped' = No /\ reason' = No
  /\ failures' = Zero /\ alive' = Zero /\ seen' = Zero /\ age' = Zero /\ streak' = Zero
  /\ cooldown' = [j \in Job |-> Cooldown]
  /\ since' = [j \in Job |-> Longest]
  /\ pushed' = [j \in Job |-> Never]
  /\ pc' = [j \in Job |-> "idle"]
  /\ tpc' = "gone" /\ todo' = {} /\ cur' = NoJob /\ view' = FALSE
  /\ spawned' = {} /\ inFlight' = {}
  /\ rpc' = "none" /\ rjob' = NoJob
  /\ paused' = FALSE /\ restore' = "none"
  /\ asked' = [r \in Request |-> "none"]
  /\ waiting' = {} /\ drained' = FALSE
  /\ mixed' = {} /\ fresh' = {} /\ alerted' = {} /\ owed' = {}
  /\ clash' = FALSE
  /\ UNCHANGED <<durable, word>>

Exit == proc = "closing" /\ Dies /\ UNCHANGED trouble

Crash == proc # "down" /\ Trouble /\ Dies

-----------------------------------------------------------------------------

Main == Boot \/ RestoreRead \/ Restore \/ Drain \/ Drained \/ Exit

Next ==
  \/ TickStep \/ TickAborted
  \/ \E j \in Job : RunStep(j) \/ ResumeJob(j)
  \/ Reset \/ Elapse
  \/ \E r \in Request : Ask(r, "pause") \/ Ask(r, "resume") \/ Record(r) \/ RecordFault(r)
  \/ Main \/ Sigterm \/ Crash

Spec == Init /\ [][Next]_vars

\* Threads run, statements return, launchd restarts the daemon, and time passes
\* between ticks: the loop sleeps.  Neither the owner nor a fault has to come.
FairSpec ==
  /\ Spec
  /\ WF_vars(TickStep) /\ WF_vars(Reset) /\ SF_vars(Elapse) /\ WF_vars(Main)
  /\ \A j \in Job : WF_vars(RunStep(j))

-----------------------------------------------------------------------------
(* What must hold                                                           *)

TypeOK ==
  /\ running \in [Job -> BOOLEAN]
  /\ tripped \in [Job -> BOOLEAN]
  /\ failures \in [Job -> 0..Threshold]
  /\ cooldown \in [Job -> Cooldown..MaxCooldown]
  /\ reason \in [Job -> BOOLEAN]
  /\ since \in [Job -> 0..Longest]
  /\ pushed \in [Job -> 0..Never]
  /\ alive \in [Job -> Nat]
  /\ pc \in [Job -> PC]
  /\ seen \in [Job -> 0..Threshold]
  /\ age \in [Job -> 0..Repush]
  /\ tpc \in {"idle", "claim", "look", "due", "gone"}
  /\ todo \subseteq Job
  /\ cur \in Job \cup {NoJob}
  /\ view \in BOOLEAN
  /\ spawned \subseteq Job
  /\ inFlight \subseteq Job
  /\ rpc \in ResetPC
  /\ rjob \in Job \cup {NoJob}
  /\ paused \in BOOLEAN
  /\ durable \in BOOLEAN
  /\ asked \in [Request -> Wish]
  /\ restore \in Wish
  /\ proc \in {"down", "starting", "up", "stopping", "draining", "closing"}
  /\ waiting \subseteq Job
  /\ drained \in BOOLEAN
  /\ streak \in [Job -> 0..Threshold]
  /\ mixed \subseteq Job /\ fresh \subseteq Job /\ alerted \subseteq Job
  /\ owed \subseteq Job
  /\ word \in Wish
  /\ clash \in BOOLEAN
  /\ trouble \in 0..MaxTrouble

\* A job never overlaps itself, whoever ticks, resets or fails meanwhile.
NoOverlap == \A j \in Job : alive[j] <= 1

\* Consecutive failures open a breaker, and nothing else: Threshold of them since
\* the last success.
TripIsEarned ==
  [][\A j \in Job : ~tripped[j] /\ tripped'[j] => streak[j] = Threshold]_vars

\* A tripped breaker says why, unless it is just closing, or was reset while its
\* failure was being recorded.
TrippedSaysWhy ==
  \A j \in Job : tripped[j] =>
    reason[j] \/ pc[j] \in {"clear_cooldown", "close"} \/ j \in mixed

\* The owner's last answered wish holds, through crashes and clean shutdowns,
\* unless it was made during another or while the daemon was starting.
KeptWord == proc = "up" /\ word # "none" => paused = (word = "pause")

\* A drain that says so waited for every job in flight when it was told to stop,
\* those aside that a tick begun before the signal was still spawning: their
\* handles may be kept after the drain has taken the others, and nobody waits.
DrainWaits == proc = "closing" /\ drained => owed = {}

\* A tripped breaker is temporary: a running daemon tries again by itself.
TrippedIsRetried ==
  \A j \in Job :
    (tripped[j] /\ proc = "up" /\ ~paused)
      ~> (pc[j] = "body" \/ ~tripped[j] \/ paused \/ proc # "up")

\* What the code does not keep: a job that recovers and then breaks again is
\* pushed right away.
NewTripIsNews == [][\A j \in Job : Suppress(j) => j \in alerted \cup mixed]_vars
=============================================================================
