------------------------------ MODULE ActionGate ------------------------------
(***************************************************************************)
(* The action gate of ea-daemon: the `actions` table, the executor that    *)
(* turns an approved row into a connector call, everyone who may decide a  *)
(* row (the policy, `ea approve`, the Telegram buttons, expiry), and what  *)
(* a crash, a store fault or a restart leaves behind.                      *)
(*                                                                         *)
(* Every daemon task runs one request at a time and is modelled statement  *)
(* by statement: one step per SQL statement or connector call, because     *)
(* between two of them every other task, the clock, the connector or the   *)
(* death of the process may come in.                                       *)
(***************************************************************************)
EXTENDS Naturals, FiniteSets

CONSTANTS
  Action,      \* rows of the `actions` table, named before they exist
  NoAction,    \* "no row"
  Tool,        \* connector.tool pairs a proposal can name
  NoTool,      \* the tool of a row that does not exist yet
  Rules,       \* policy.toml: a mode for each tool that has a rule
  Task,        \* concurrent tasks of the daemon
  Poller,      \* those of them that are the Telegram update loop
  Redriver,    \* those that call execute_approved on a row they did not approve
  MaxTrouble,  \* bound: crashes, signals and store faults in a behaviour
  MaxRuns      \* bound: attempts a redriver makes on a row

Mode == {"auto", "approve", "deny"}

ASSUME GateAssumption ==
  /\ NoAction \notin Action
  /\ NoTool \notin Tool
  /\ DOMAIN Rules \subseteq Tool
  /\ \A t \in DOMAIN Rules : Rules[t] \in Mode
  /\ Poller \subseteq Task
  /\ Redriver \subseteq Task
  /\ Poller \cap Redriver = {}
  /\ MaxTrouble \in Nat
  /\ MaxRuns \in Nat

VARIABLES
  \* durable: the database
  status,      \* actions.status, or "absent"
  stamped,     \* actions.executed_at IS NOT NULL
  tool,        \* actions.connector and actions.tool
  due,         \* rows whose expires_at has passed
  runs,        \* per row: its `runs` rows of kind "execute", by outcome
  swept,       \* rows resolved by the startup sweep (their `reason` says so)
  reported,    \* rows the notification digest has a recovery line for
  \* in memory: lost with the process
  pc,          \* where each task is in the request it serves
  act,         \* the row that request is about
  outcome,     \* what the connector call came to
  told,        \* the sentence the Telegram handler is about to answer with
  inFlight,    \* Executor.in_flight
  todo,        \* the stranded rows the sweep has read and not yet resolved
  sweeping,    \* the row it has resolved and not yet reported
  proc,        \* the life of the process
  \* outside the daemon
  sent,        \* per row: requests handed to the connector
  wire,        \* per row: what became of the last of them
  shown,       \* rows whose buttons are in the Telegram chat
  \* history and bounds
  human,       \* rows a human approved
  trouble      \* crashes, signals and faults so far

rowVars == <<status, stamped, tool, due, runs>>
reportVars == <<swept, reported, todo, sweeping>>
taskVars == <<pc, act, outcome, told, inFlight>>
outsideVars == <<sent, wire, shown>>

vars == <<rowVars, reportVars, taskVars, outsideVars, proc, human, trouble>>

Status == {"absent", "proposed", "approved", "executed", "failed", "rejected",
           "expired"}

\* The points between two awaits at which a request can be.
Holding == {"get", "start", "stamp", "refuse", "call", "await", "record",
            "finish", "finish_unrecorded"}
PC == {"idle", "deny", "auto", "push", "send", "claim", "readback", "reply"}
      \cup Holding

Told == {"nothing", "ran", "unchanged", "could_not_run", "rejected",
         "being_handled", "try_again", "already", "expired", "not_read"}

Wire == {"none", "sent", "applied", "refused"}
Outcome == {"none", "ok", "error"}
Ipc == Task \ (Poller \cup Redriver)

Stranded(a) == status[a] = "approved" /\ stamped[a]
Serving == proc \in {"up", "stopping"}

\* Mutant: a tool no rule names runs without asking.
DecideOpen(t) == IF t \in DOMAIN Rules THEN Rules[t] ELSE "auto"

\* Policy::decide: a tool or a connector with no rule needs approval.
Decide(t) == IF t \in DOMAIN Rules THEN Rules[t] ELSE "approve"

Init ==
  /\ status = [a \in Action |-> "absent"]
  /\ stamped = [a \in Action |-> FALSE]
  /\ tool = [a \in Action |-> NoTool]
  /\ due = {}
  /\ runs = [a \in Action |-> [running |-> 0, ok |-> 0, error |-> 0]]
  /\ swept = {}
  /\ reported = {}
  /\ pc = [t \in Task |-> "idle"]
  /\ act = [t \in Task |-> NoAction]
  /\ outcome = [t \in Task |-> "none"]
  /\ told = [t \in Task |-> "nothing"]
  /\ inFlight = {}
  /\ todo = {}
  /\ sweeping = NoAction
  /\ proc = "down"
  /\ sent = [a \in Action |-> 0]
  /\ wire = [a \in Action |-> "none"]
  /\ shown = {}
  /\ human = {}
  /\ trouble = 0

-----------------------------------------------------------------------------
(* Pieces of a step                                                         *)

Goto(t, p) == pc' = [pc EXCEPT ![t] = p]

\* Mutant: the UPDATE without its `AND status = from`.
TransitionUnchecked(a, from, to) == status' = [status EXCEPT ![a] = to]

\* The conditional UPDATE every decision is made of: no matching row, no step.
Transition(a, from, to) ==
  /\ status[a] = from
  /\ status' = [status EXCEPT ![a] = to]

\* The request is over; dropping its future releases the in-memory claim.
Finished(t) ==
  /\ pc' = [pc EXCEPT ![t] = "idle"]
  /\ act' = [act EXCEPT ![t] = NoAction]
  /\ outcome' = [outcome EXCEPT ![t] = "none"]
  /\ told' = [told EXCEPT ![t] = "nothing"]
  /\ inFlight' = IF pc[t] \in Holding THEN inFlight \ {act[t]} ELSE inFlight

\* execute_approved returned: the update loop has an answer to send, any other
\* caller is done.
Returned(t, answer) ==
  IF t \in Poller
  THEN /\ Goto(t, "reply")
       /\ told' = [told EXCEPT ![t] = answer]
       /\ outcome' = [outcome EXCEPT ![t] = "none"]
       /\ inFlight' = IF pc[t] \in Holding THEN inFlight \ {act[t]} ELSE inFlight
       /\ UNCHANGED act
  ELSE Finished(t)

Trouble == trouble < MaxTrouble /\ trouble' = trouble + 1

-----------------------------------------------------------------------------
(* Proposing: Executor::submit                                              *)

\* The decision is taken before the row exists; the row is then inserted as
\* `proposed` whatever the decision was.
Submit(t, a, tl) ==
  /\ Serving /\ t \in Ipc /\ pc[t] = "idle"
  /\ status[a] = "absent"
  /\ status' = [status EXCEPT ![a] = "proposed"]
  /\ tool' = [tool EXCEPT ![a] = tl]
  /\ act' = [act EXCEPT ![t] = a]
  /\ Goto(t, CASE Decide(tl) = "deny" -> "deny"
               [] Decide(tl) = "auto" -> "auto"
               [] OTHER -> "push")
  /\ UNCHANGED <<stamped, due, runs, reportVars, outcome, told, inFlight,
                 outsideVars, proc, human, trouble>>

SubmitDeny(t) ==
  /\ pc[t] = "deny"
  /\ IF status[act[t]] = "proposed"
     THEN Transition(act[t], "proposed", "rejected")
     ELSE UNCHANGED status
  /\ Finished(t)
  /\ UNCHANGED <<stamped, tool, due, runs, reportVars, outsideVars, proc, human,
                 trouble>>

SubmitAuto(t) ==
  /\ pc[t] = "auto"
  /\ \/ /\ Transition(act[t], "proposed", "approved")
        /\ Goto(t, "claim")
        /\ UNCHANGED <<act, outcome, told, inFlight>>
     \/ /\ status[act[t]] # "proposed"
        /\ Finished(t)
        /\ UNCHANGED status
  /\ UNCHANGED <<stamped, tool, due, runs, reportVars, outsideVars, proc, human,
                 trouble>>

\* The proposal is put in front of the human: read the row, refuse to show one
\* already decided, send. A failed send is only logged.
PushRead(t) ==
  /\ pc[t] = "push"
  /\ IF status[act[t]] = "proposed"
     THEN Goto(t, "send") /\ UNCHANGED <<act, outcome, told, inFlight>>
     ELSE Finished(t)
  /\ UNCHANGED <<rowVars, reportVars, outsideVars, proc, human, trouble>>

PushSend(t) ==
  /\ pc[t] = "send"
  /\ shown' \in {shown, shown \cup {act[t]}}
  /\ Finished(t)
  /\ UNCHANGED <<rowVars, reportVars, sent, wire, proc, human, trouble>>

-----------------------------------------------------------------------------
(* Deciding: `ea approve` / `ea reject`, and the Telegram buttons           *)

\* Whoever may decide row a now: any IPC client, or a tap on buttons shown.
MayDecide(t, a) ==
  /\ pc[t] = "idle"
  /\ (t \in Ipc /\ Serving) \/ (t \in Poller /\ a \in shown /\ proc = "up")

\* A decision that did not apply: IPC answers with the error, the Telegram
\* handler reads the row back to say what happened to it.
NotApplied(t, a) ==
  IF t \in Poller
  THEN /\ Goto(t, "readback")
       /\ act' = [act EXCEPT ![t] = a]
       /\ UNCHANGED <<outcome, told, inFlight>>
  ELSE UNCHANGED taskVars

Approve(t, a) ==
  /\ MayDecide(t, a)
  /\ Transition(a, "proposed", "approved")
  /\ human' = human \cup {a}
  /\ Goto(t, "claim")
  /\ act' = [act EXCEPT ![t] = a]
  /\ UNCHANGED <<stamped, tool, due, runs, reportVars, outcome, told, inFlight,
                 outsideVars, proc, trouble>>

\* The UPDATE committed, its acknowledgement did not arrive.
ApproveUnacknowledged(t, a) ==
  /\ MayDecide(t, a) /\ Trouble
  /\ Transition(a, "proposed", "approved")
  /\ human' = human \cup {a}
  /\ NotApplied(t, a)
  /\ UNCHANGED <<stamped, tool, due, runs, reportVars, outsideVars, proc>>

\* Mutant: a rejection that also takes back an approval.
RejectApproved(t, a) ==
  /\ MayDecide(t, a)
  /\ status[a] \in {"proposed", "approved"}
  /\ status' = [status EXCEPT ![a] = "rejected"]
  /\ UNCHANGED <<stamped, tool, due, runs, reportVars, taskVars, outsideVars, proc,
                 human, trouble>>

Reject(t, a) ==
  /\ MayDecide(t, a)
  /\ Transition(a, "proposed", "rejected")
  /\ IF t \in Poller
     THEN /\ Goto(t, "reply")
          /\ act' = [act EXCEPT ![t] = a]
          /\ told' = [told EXCEPT ![t] = "rejected"]
          /\ UNCHANGED <<outcome, inFlight>>
     ELSE UNCHANGED taskVars
  /\ UNCHANGED <<stamped, tool, due, runs, reportVars, outsideVars, proc, human,
                 trouble>>

TooLate(t, a) ==
  /\ MayDecide(t, a)
  /\ status[a] # "proposed"
  /\ NotApplied(t, a)
  /\ UNCHANGED <<rowVars, reportVars, outsideVars, proc, human, trouble>>

\* Telegram's already_handled: the row as it is now decides the sentence.
ReadBack(t) ==
  /\ pc[t] = "readback"
  /\ Goto(t, "reply")
  /\ told' = [told EXCEPT ![t] =
                CASE status[act[t]] = "proposed" -> "try_again"
                  [] status[act[t]] = "approved" -> "being_handled"
                  [] status[act[t]] = "expired" -> "expired"
                  [] OTHER -> "already"]
  /\ UNCHANGED <<rowVars, reportVars, act, outcome, inFlight, outsideVars, proc,
                 human, trouble>>

Answer(t) ==
  /\ pc[t] = "reply"
  /\ Finished(t)
  /\ UNCHANGED <<rowVars, reportVars, outsideVars, proc, human, trouble>>

-----------------------------------------------------------------------------
(* Executing: Executor::run                                                 *)

\* A caller of execute_approved that did not approve the row itself. The daemon
\* has none today; the executor's contract is written for one.
Execute(t, a) ==
  /\ Serving /\ t \in Redriver /\ pc[t] = "idle"
  /\ runs[a].running + runs[a].ok + runs[a].error < MaxRuns
  /\ Goto(t, "claim")
  /\ act' = [act EXCEPT ![t] = a]
  /\ UNCHANGED <<rowVars, reportVars, outcome, told, inFlight, outsideVars, proc,
                 human, trouble>>

\* Mutant: the in-flight set is filled but not consulted.
ClaimBlind(t) ==
  /\ pc[t] = "claim"
  /\ inFlight' = inFlight \cup {act[t]}
  /\ Goto(t, "get")
  /\ UNCHANGED <<rowVars, reportVars, act, outcome, told, outsideVars, proc, human,
                 trouble>>

Claim(t) ==
  /\ pc[t] = "claim"
  /\ IF act[t] \in inFlight
     THEN Returned(t, "could_not_run")
     ELSE /\ inFlight' = inFlight \cup {act[t]}
          /\ Goto(t, "get")
          /\ UNCHANGED <<act, outcome, told>>
  /\ UNCHANGED <<rowVars, reportVars, outsideVars, proc, human, trouble>>

Get(t) ==
  /\ pc[t] = "get"
  /\ IF status[act[t]] = "approved"
     THEN Goto(t, "start") /\ UNCHANGED <<act, outcome, told, inFlight>>
     ELSE Returned(t, "could_not_run")
  /\ UNCHANGED <<rowVars, reportVars, outsideVars, proc, human, trouble>>

\* Mutant: the run is not recorded before the claim.
StartRunUnrecorded(t) ==
  /\ pc[t] = "start"
  /\ Goto(t, "stamp")
  /\ UNCHANGED <<rowVars, reportVars, act, outcome, told, inFlight, outsideVars,
                 proc, human, trouble>>

StartRun(t) ==
  /\ pc[t] = "start"
  /\ runs' = [runs EXCEPT ![act[t]].running = @ + 1]
  /\ Goto(t, "stamp")
  /\ UNCHANGED <<status, stamped, tool, due, reportVars, act, outcome, told,
                 inFlight, outsideVars, proc, human, trouble>>

\* Mutant: the claim without its `AND executed_at IS NULL`.
ClaimableAgain(a) == status[a] = "approved"

\* ActionStore::claim_for_execution finds the row it may stamp.
Claimable(a) == status[a] = "approved" /\ ~stamped[a]

Stamp(t) ==
  /\ pc[t] = "stamp"
  /\ IF Claimable(act[t])
     THEN stamped' = [stamped EXCEPT ![act[t]] = TRUE] /\ Goto(t, "call")
     ELSE UNCHANGED stamped /\ Goto(t, "refuse")
  /\ UNCHANGED <<status, tool, due, runs, reportVars, act, outcome, told,
                 inFlight, outsideVars, proc, human, trouble>>

StampUnacknowledged(t) ==
  /\ pc[t] = "stamp" /\ Trouble
  /\ Claimable(act[t])
  /\ stamped' = [stamped EXCEPT ![act[t]] = TRUE]
  /\ Returned(t, "could_not_run")
  /\ UNCHANGED <<status, tool, due, runs, reportVars, outsideVars, proc, human>>

CloseRun(a, result) ==
  runs' = [runs EXCEPT ![a].running = @ - 1, ![a][result] = @ + 1]

Refuse(t) ==
  /\ pc[t] = "refuse"
  /\ CloseRun(act[t], "error")
  /\ Returned(t, "could_not_run")
  /\ UNCHANGED <<status, stamped, tool, due, reportVars, outsideVars, proc,
                 human, trouble>>

Call(t) ==
  /\ pc[t] = "call"
  /\ sent' = [sent EXCEPT ![act[t]] = @ + 1]
  /\ wire' = [wire EXCEPT ![act[t]] = "sent"]
  /\ Goto(t, "await")
  /\ UNCHANGED <<rowVars, reportVars, act, outcome, told, inFlight, shown, proc,
                 human, trouble>>

\* The call's outcome, once there is one.
Outcomes(t, result) ==
  /\ outcome' = [outcome EXCEPT ![t] = result]
  /\ Goto(t, "record")
  /\ UNCHANGED <<rowVars, reportVars, act, told, inFlight, outsideVars, proc,
                 human, trouble>>

\* No client for the connector, or arguments it cannot carry: nothing was sent.
CallFails(t) == pc[t] = "call" /\ Outcomes(t, "error")

\* Mutant: `is_error` on the tool's result is not looked at.
ReceiveAnyAnswer(t) ==
  /\ pc[t] = "await" /\ wire[act[t]] \in {"applied", "refused"}
  /\ Outcomes(t, "ok")

Receive(t) ==
  /\ pc[t] = "await"
  /\ \/ wire[act[t]] = "applied" /\ Outcomes(t, "ok")
     \/ wire[act[t]] = "refused" /\ Outcomes(t, "error")

\* Mutant: no deadline; the call ends only once the far side has spoken.
GiveUpAnswered(t) ==
  pc[t] = "await" /\ wire[act[t]] # "sent" /\ Outcomes(t, "error")

\* A deadline passed or the transport closed, whatever the far side did or
\* will still do with the request.
GiveUp(t) == pc[t] = "await" /\ Outcomes(t, "error")

Verdict(t) == IF outcome[t] = "ok" THEN "executed" ELSE "failed"

Record(t) ==
  /\ pc[t] = "record"
  /\ IF status[act[t]] = "approved"
     THEN Transition(act[t], "approved", Verdict(t)) /\ Goto(t, "finish")
     ELSE UNCHANGED status /\ Goto(t, "finish_unrecorded")
  /\ UNCHANGED <<stamped, tool, due, runs, reportVars, act, outcome, told,
                 inFlight, outsideVars, proc, human, trouble>>

\* mark_executed or mark_failed returned an error, its UPDATE lost or not.
RecordFault(t) ==
  /\ pc[t] = "record" /\ Trouble
  /\ UNCHANGED status \/ Transition(act[t], "approved", Verdict(t))
  /\ Goto(t, "finish_unrecorded")
  /\ UNCHANGED <<stamped, tool, due, runs, reportVars, act, outcome, told,
                 inFlight, outsideVars, proc, human>>

\* Mutant: the run is closed only when the call succeeded.
FinishSuccessOnly(t) ==
  /\ pc[t] \in {"finish", "finish_unrecorded"}
  /\ IF outcome[t] = "ok" THEN CloseRun(act[t], "ok") ELSE UNCHANGED runs
  /\ Returned(t, "ran")
  /\ UNCHANGED <<status, stamped, tool, due, reportVars, outsideVars, proc,
                 human, trouble>>

\* The run is closed before the row's own result is looked at.
Finish(t) ==
  /\ pc[t] \in {"finish", "finish_unrecorded"}
  /\ CloseRun(act[t], outcome[t])
  /\ Returned(t, CASE pc[t] = "finish_unrecorded" -> "could_not_run"
                   [] outcome[t] = "ok" -> "ran"
                   [] OTHER -> "unchanged")
  /\ UNCHANGED <<status, stamped, tool, due, reportVars, outsideVars, proc,
                 human, trouble>>

\* A statement failed and wrote nothing; `?` ends the request.
StoreFault(t) ==
  /\ pc[t] \in {"deny", "auto", "push", "readback", "get", "start", "stamp",
                "refuse", "finish", "finish_unrecorded"}
  /\ Trouble
  /\ Returned(t, IF pc[t] = "readback" THEN "not_read" ELSE "could_not_run")
  /\ UNCHANGED <<rowVars, reportVars, outsideVars, proc, human>>

DecisionFault(t, a) ==
  /\ MayDecide(t, a) /\ t \in Poller /\ Trouble
  /\ NotApplied(t, a)
  /\ UNCHANGED <<rowVars, reportVars, outsideVars, proc, human>>

-----------------------------------------------------------------------------
(* The world: the connector's side of the wire, and the clock               *)

Connector(a) ==
  /\ wire[a] = "sent"
  /\ \E r \in {"applied", "refused"} : wire' = [wire EXCEPT ![a] = r]
  /\ UNCHANGED <<rowVars, reportVars, taskVars, sent, shown, proc, human, trouble>>

Deadline(a) ==
  /\ status[a] = "proposed" /\ a \notin due
  /\ due' = due \cup {a}
  /\ UNCHANGED <<status, stamped, tool, runs, reportVars, taskVars, outsideVars,
                 proc, human, trouble>>

\* Mutant: expiry by date alone, approved rows included.
ExpireApproved ==
  LET stale == {a \in due : status[a] \in {"proposed", "approved"}} IN
  /\ Serving /\ stale # {}
  /\ status' = [a \in Action |-> IF a \in stale THEN "expired" ELSE status[a]]
  /\ UNCHANGED <<stamped, tool, due, runs, reportVars, taskVars, outsideVars,
                 proc, human, trouble>>

\* expire_stale, which the triage job runs first: one UPDATE for every row due.
Expire ==
  LET stale == {a \in due : status[a] = "proposed"} IN
  /\ Serving /\ stale # {}
  /\ status' = [a \in Action |-> IF a \in stale THEN "expired" ELSE status[a]]
  /\ UNCHANGED <<stamped, tool, due, runs, reportVars, taskVars, outsideVars,
                 proc, human, trouble>>

-----------------------------------------------------------------------------
(* The process: startup sweep, clean shutdown, crash                        *)

Start ==
  /\ proc = "down"
  /\ proc' = "starting"
  /\ todo' = {a \in Action : Stranded(a)}
  /\ UNCHANGED <<rowVars, swept, reported, sweeping, taskVars, outsideVars,
                 human, trouble>>

\* Mutant: a stranded row is put back in the queue instead of failed.
SweepRequeues(a) ==
  /\ a \in todo /\ sweeping = NoAction
  /\ todo' = todo \ {a}
  /\ Transition(a, "approved", "proposed")
  /\ stamped' = [stamped EXCEPT ![a] = FALSE]
  /\ UNCHANGED <<tool, due, runs, swept, reported, sweeping, taskVars, outsideVars,
                 proc, human, trouble>>

\* Mutant: fail_stranded looks for rows without a stamp.
SweepUnstamped(a) ==
  /\ a \in todo /\ sweeping = NoAction
  /\ todo' = todo \ {a}
  /\ IF status[a] = "approved" /\ ~stamped[a]
     THEN Transition(a, "approved", "failed")
     ELSE UNCHANGED status
  /\ UNCHANGED <<stamped, tool, due, runs, swept, reported, sweeping, taskVars,
                 outsideVars, proc, human, trouble>>

\* Mutant: the next row is resolved before the last one is reported.
SweepUnreported(a) ==
  /\ a \in todo
  /\ todo' = todo \ {a}
  /\ IF Stranded(a)
     THEN /\ Transition(a, "approved", "failed")
          /\ swept' = swept \cup {a}
          /\ sweeping' = a
     ELSE UNCHANGED <<status, swept, sweeping>>
  /\ UNCHANGED <<stamped, tool, due, runs, reported, taskVars, outsideVars, proc,
                 human, trouble>>

\* fail_stranded: conditional on the row still being stranded, and leaving the
\* stamp alone.
SweepFail(a) ==
  /\ a \in todo /\ sweeping = NoAction
  /\ todo' = todo \ {a}
  /\ IF Stranded(a)
     THEN /\ Transition(a, "approved", "failed")
          /\ swept' = swept \cup {a}
          /\ sweeping' = a
     ELSE UNCHANGED <<status, swept, sweeping>>
  /\ UNCHANGED <<stamped, tool, due, runs, reported, taskVars, outsideVars, proc,
                 human, trouble>>

\* Mutant: a digest line even when no row was resolved.
SweepReportAlways ==
  /\ proc = "starting"
  /\ reported' = reported \cup {sweeping}
  /\ sweeping' = NoAction
  /\ UNCHANGED <<rowVars, swept, todo, taskVars, outsideVars, proc, human,
                 trouble>>

SweepReport ==
  /\ sweeping # NoAction
  /\ reported' = reported \cup {sweeping}
  /\ sweeping' = NoAction
  /\ UNCHANGED <<rowVars, swept, todo, taskVars, outsideVars, proc, human,
                 trouble>>

\* Only once the sweep is over are the socket bound and the poller spawned.
Bind ==
  /\ proc = "starting" /\ todo = {} /\ sweeping = NoAction
  /\ proc' = "up"
  /\ UNCHANGED <<rowVars, reportVars, taskVars, outsideVars, human, trouble>>

Sigterm ==
  /\ proc = "up" /\ Trouble
  /\ proc' = "stopping"
  /\ UNCHANGED <<rowVars, reportVars, taskVars, outsideVars, human>>

\* The update loop selects on the shutdown signal first: the poll in progress,
\* and whatever it was executing, is dropped where it stands.
PollerStops(t) ==
  /\ proc = "stopping" /\ t \in Poller /\ pc[t] # "idle"
  /\ Finished(t)
  /\ UNCHANGED <<rowVars, reportVars, outsideVars, proc, human, trouble>>

\* Every task is gone, and with them everything held in memory.
Dies ==
  /\ proc' = "down"
  /\ pc' = [t \in Task |-> "idle"]
  /\ act' = [t \in Task |-> NoAction]
  /\ outcome' = [t \in Task |-> "none"]
  /\ told' = [t \in Task |-> "nothing"]
  /\ inFlight' = {}
  /\ todo' = {}
  /\ sweeping' = NoAction
  /\ UNCHANGED <<rowVars, swept, reported, outsideVars, human>>

\* The drain waits for scheduler jobs only; the server then aborts whatever its
\* connections are doing.
Stop ==
  /\ proc = "stopping" /\ \A t \in Poller : pc[t] = "idle"
  /\ Dies
  /\ UNCHANGED trouble

Crash == proc # "down" /\ Trouble /\ Dies

-----------------------------------------------------------------------------
(* What a task does with the request it is already serving.                 *)
Advance(t) ==
  \/ SubmitDeny(t) \/ SubmitAuto(t) \/ PushRead(t) \/ PushSend(t)
  \/ ReadBack(t) \/ Answer(t)
  \/ Claim(t) \/ Get(t) \/ StartRun(t) \/ Stamp(t) \/ Refuse(t)
  \/ Call(t) \/ CallFails(t) \/ Receive(t) \/ GiveUp(t)
  \/ Record(t) \/ Finish(t)

Faults(t) == StampUnacknowledged(t) \/ RecordFault(t) \/ StoreFault(t)

Requests(t, a) ==
  \/ \E tl \in Tool : Submit(t, a, tl)
  \/ Approve(t, a) \/ ApproveUnacknowledged(t, a) \/ Reject(t, a)
  \/ TooLate(t, a) \/ DecisionFault(t, a) \/ Execute(t, a)

Sweep == (\E a \in Action : SweepFail(a)) \/ SweepReport \/ Bind

Next ==
  \/ \E t \in Task : Advance(t) \/ Faults(t) \/ PollerStops(t)
  \/ \E t \in Task, a \in Action : Requests(t, a)
  \/ \E a \in Action : Connector(a) \/ Deadline(a)
  \/ Expire
  \/ Start \/ Sweep \/ Sigterm \/ Stop \/ Crash

Spec == Init /\ [][Next]_vars

\* The runtime polls every ready task, every statement and connector call has a
\* deadline, and launchd keeps the daemon running.
FairSpec ==
  /\ Spec
  /\ \A t \in Task : WF_vars(Advance(t))
  /\ WF_vars(Start) /\ WF_vars(Sweep)

-----------------------------------------------------------------------------
(* Properties                                                               *)

TypeOK ==
  /\ status \in [Action -> Status]
  /\ stamped \in [Action -> BOOLEAN]
  /\ tool \in [Action -> Tool \cup {NoTool}]
  /\ due \subseteq Action
  /\ runs \in [Action -> [running : Nat, ok : Nat, error : Nat]]
  /\ swept \subseteq Action
  /\ reported \subseteq Action
  /\ pc \in [Task -> PC]
  /\ act \in [Task -> Action \cup {NoAction}]
  /\ outcome \in [Task -> Outcome]
  /\ told \in [Task -> Told]
  /\ inFlight \subseteq Action
  /\ todo \subseteq Action
  /\ sweeping \in Action \cup {NoAction}
  /\ proc \in {"down", "starting", "up", "stopping"}
  /\ sent \in [Action -> Nat]
  /\ wire \in [Action -> Wire]
  /\ shown \subseteq Action
  /\ human \subseteq Action
  /\ trouble \in 0..MaxTrouble

\* Whatever crashes, faults, double taps and restarts do, an action reaches its
\* connector at most once: the voucher is never posted twice.
AtMostOneCall == \A a \in Action : sent[a] <= 1

\* The request is at the side effect: past the durable claim, outcome unrecorded.
Executing(t) == pc[t] \in {"call", "await", "record"}

\* A connector is reached only for a row a human approved, or whose tool the
\* policy file marks auto by name; no rule means no consent.
ConsentBeforeCall ==
  \A a \in Action : sent[a] > 0 =>
    a \in human \/ (tool[a] \in DOMAIN Rules /\ Rules[tool[a]] = "auto")

\* "Rejected. Nothing was called.", "expired before anyone decided. Nothing was
\* done.": both sentences are true of the rows they are said of.
RefusedNeverCalled ==
  \A a \in Action :
    status[a] \in {"proposed", "rejected", "expired"} => sent[a] = 0

\* While a task has a call out, nobody else (sweep, expiry, a second decision)
\* takes the row away from it: the outcome it records is the row's.
OutcomeIsTheCallers ==
  \A t \in Task : Executing(t) => status[act[t]] = "approved"

\* A row says `executed` only if the connector did perform it.
ExecutedMeansApplied ==
  \A a \in Action : status[a] = "executed" => wire[a] = "applied"

\* The in-flight set works: two tasks are never inside Executor::run for one
\* row, so a double tap costs no second run.
OneExecutionAtATime ==
  \A t, u \in Task :
    pc[t] \in Holding /\ pc[u] \in Holding /\ act[t] = act[u] => t = u

\* The `runs` row is opened before the durable claim: whatever a crash cuts
\* short, a claimed row has a run naming it, and one being executed an open one.
ClaimLeavesTrace ==
  /\ \A a \in Action : stamped[a] => runs[a].running + runs[a].ok + runs[a].error > 0
  /\ \A t \in Task : Executing(t) => runs[act[t]].running > 0

\* With nothing going wrong, every run opened is closed by the task that opened
\* it: the open runs of a row are exactly the tasks still working on it.
OpenRunsAreLive ==
  trouble = 0 =>
    \A a \in Action :
      runs[a].running =
        Cardinality({t \in Task : act[t] = a /\ pc[t] \in Holding \ {"get", "start"}})

\* One crash does not lose the story: a row the sweep resolves reaches the digest,
\* or is about to. (A second crash, between the two statements, does lose it.)
SweptIsReported ==
  trouble <= 1 => \A a \in swept : a \in reported \/ a = sweeping

\* The gate keeps its promise (ActionPromise): decisions and outcomes are final,
\* and a connector is asked only about a granted action never asked about before.
Phase(a) ==
  CASE status[a] = "absent" -> "none"
    [] status[a] = "proposed" -> "waiting"
    [] status[a] \in {"rejected", "expired"} -> "dropped"
    [] status[a] \in {"executed", "failed"} -> "done"
    [] OTHER -> IF sent[a] = 0 THEN "granted" ELSE "attempted"

Promise == INSTANCE ActionPromise WITH
             phase <- [a \in Action |-> Phase(a)], attempts <- sent

KeepsPromise == Promise!Spec

\* A row a dead process left claimed is resolved as failed by the restart, even
\* if the restarts crash too.
StrandedIsResolved ==
  \A a \in Action : (proc = "down" /\ Stranded(a)) ~> (status[a] = "failed")

\* With nothing going wrong, an approval is followed by an outcome, even from a
\* connector that never answers.
ApprovedConcludes ==
  \A a \in Action :
    (status[a] = "approved" /\ trouble = 0)
      ~> (status[a] \in {"executed", "failed"} \/ trouble > 0)

\* No request hangs forever, whatever fails: the update loop, which serves one
\* update at a time, always gets to the next.
RequestsEnd == \A t \in Task : (pc[t] # "idle") ~> (pc[t] = "idle")

-----------------------------------------------------------------------------
(* What the repository says and the code does not do                        *)

\* executor.rs: for a denied tool "the connector is never touched".  A proposal is
\* recorded first and rejected then; what lies between leaves it open to approval.
DeniedNeverCalled ==
  \A a \in Action :
    sent[a] > 0 =>
      ~(tool[a] \in DOMAIN Rules /\ Rules[tool[a]] = "deny")

\* telegram.rs: a failed action is answered "Nothing changed on their side."  A
\* deadline that passed is a failure too, and the connector may act after it.
NothingChangedIsTrue ==
  \A t \in Task : told[t] = "unchanged" => wire[act[t]] # "applied"

\* recovery.rs: the claimed row is the "one thing" that survives a crash in a
\* state nothing else can see, so no approved row is left once the sweep is done.
SweepLeavesNothingApproved ==
  [][proc = "starting" /\ proc' = "up" =>
       \A a \in Action : status[a] # "approved"]_vars

\* main.rs: a clean shutdown waits for an approved action mid-call.
ShutdownWaitsForCalls ==
  [][proc = "stopping" =>
       \A t \in Task : pc[t] = "await" => pc'[t] # "idle"]_vars
=============================================================================
