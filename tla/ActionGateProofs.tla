------------------------- MODULE ActionGateProofs -------------------------
(***************************************************************************)
(* What the action gate guarantees for any set of rows, tools and tasks,   *)
(* any policy and any number of crashes and faults.                        *)
(*                                                                         *)
(* The inductive invariant is built in layers, each a lemma of its own:    *)
(* who is working on which row (Attribution, with OneExecutionAtATime),    *)
(* what has been sent (Sending), what has been decided (Deciding), what    *)
(* the far side did (Applied), and which runs are on record (Traced).      *)
(* Every way a request can leave the executor is first brought down to one *)
(* relation, Departs, so that each layer looks at it once.                 *)
(***************************************************************************)
EXTENDS ActionGate, TLAPS

-----------------------------------------------------------------------------
(* The inductive invariant                                                  *)

Claiming == Holding \ {"get", "start"}
AtCall == {"call", "await", "record"}
Granted == {"approved", "executed", "failed"}

Consent(a) ==
  a \in human \/ (tool[a] \in DOMAIN Rules /\ Rules[tool[a]] = "auto")

Attribution ==
  /\ \A t \in Task : pc[t] # "idle" => act[t] \in Action
  /\ \A t \in Task : pc[t] \in Holding => act[t] \in inFlight
  /\ \A t \in Task : pc[t] \in Claiming => runs[act[t]].running > 0
  /\ \A t \in Task : pc[t] \in {"record", "finish", "finish_unrecorded"}
                       => outcome[t] \in {"ok", "error"}
  /\ proc \in {"down", "starting"} => \A t \in Task : pc[t] = "idle"
  /\ todo # {} => proc = "starting"

Base == TypeOK /\ Attribution /\ OneExecutionAtATime

Sending ==
  /\ \A a \in Action : sent[a] > 0 => stamped[a]
  /\ \A t \in Task : pc[t] \in AtCall => stamped[act[t]]
  /\ \A t \in Task : pc[t] = "call" => sent[act[t]] = 0
  /\ AtMostOneCall

Deciding ==
  /\ OutcomeIsTheCallers
  /\ \A a \in Action : sent[a] > 0 => status[a] \in Granted
  /\ \A a \in Action : status[a] \in Granted => Consent(a)
  /\ \A t \in Task : pc[t] = "auto" =>
       /\ status[act[t]] # "absent"
       /\ tool[act[t]] \in DOMAIN Rules /\ Rules[tool[act[t]]] = "auto"

Applied ==
  /\ \A t \in Task : pc[t] = "record" /\ outcome[t] = "ok"
                       => wire[act[t]] = "applied"
  /\ ExecutedMeansApplied

Total(a) == runs[a].running + runs[a].ok + runs[a].error
Traced == \A a \in Action : stamped[a] => Total(a) > 0

Inv == Base /\ Sending /\ Deciding /\ Applied /\ Traced

-----------------------------------------------------------------------------
(* What ending a request does to the tasks                                  *)

TaskTypes ==
  /\ pc \in [Task -> PC]
  /\ act \in [Task -> Action \cup {NoAction}]
  /\ outcome \in [Task -> Outcome]
  /\ told \in [Task -> Told]
  /\ inFlight \subseteq Action

\* After the step task t is outside the executor, the row it held is no longer
\* in flight, and no other task has moved.
Away(t) ==
  /\ pc'[t] \in {"idle", "reply", "readback"}
  /\ pc'[t] # "idle" => act'[t] \in Action
  /\ inFlight' = IF pc[t] \in Holding THEN inFlight \ {act[t]} ELSE inFlight
  /\ \A u \in Task \ {t} :
       pc'[u] = pc[u] /\ act'[u] = act[u] /\ outcome'[u] = outcome[u]

\* A request that ends (its future dropped) leaves the executor.
LEMMA FinishedAway ==
  ASSUME TaskTypes, NEW t \in Task, Finished(t)
  PROVE  TaskTypes' /\ Away(t)
<1> USE DEF TaskTypes, PC, Outcome, Told
<1>1. pc' \in [Task -> PC] /\ pc'[t] = "idle"
  BY DEF Finished
<1>2. /\ act' \in [Task -> Action \cup {NoAction}]
      /\ outcome' \in [Task -> Outcome]
      /\ told' \in [Task -> Told]
  BY DEF Finished
<1>3. inFlight' \subseteq Action
  BY DEF Finished
<1>4. \A u \in Task \ {t} :
        pc'[u] = pc[u] /\ act'[u] = act[u] /\ outcome'[u] = outcome[u]
  BY DEF Finished
<1> QED BY <1>1, <1>2, <1>3, <1>4 DEF Away, Finished

\* So does one that execute_approved answers, whoever asked.
LEMMA ReturnedAway ==
  ASSUME TaskTypes, NEW t \in Task, NEW answer \in Told, Returned(t, answer),
         act[t] \in Action
  PROVE  TaskTypes' /\ Away(t)
<1>1. CASE t \in Poller
  <2> USE DEF TaskTypes, PC, Outcome, Told, Returned, Goto
  <2>1. pc' \in [Task -> PC] /\ pc'[t] = "reply"
    BY <1>1
  <2>2. /\ act' = act
        /\ outcome' \in [Task -> Outcome]
        /\ told' \in [Task -> Told]
    BY <1>1
  <2>3. inFlight' \subseteq Action
    BY <1>1
  <2>4. \A u \in Task \ {t} : pc'[u] = pc[u] /\ outcome'[u] = outcome[u]
    BY <1>1
  <2> QED BY <1>1, <2>1, <2>2, <2>3, <2>4 DEF Away
<1>2. CASE t \notin Poller
  BY <1>2, FinishedAway DEF Returned
<1> QED BY <1>1, <1>2

\* A decision that did not apply leaves an IPC task where it was and sends the
\* update loop to read the row back.
LEMMA NotAppliedAway ==
  ASSUME TaskTypes, NEW t \in Task, NEW a \in Action, pc[t] = "idle",
         NotApplied(t, a)
  PROVE  TaskTypes' /\ Away(t)
<1> USE DEF NotApplied, TaskTypes, Goto, taskVars, PC, Away, Holding
<1>1. CASE t \in Poller
  BY <1>1
<1>2. CASE t \notin Poller
  BY <1>2
<1> QED BY <1>1, <1>2

\* Rejecting never enters the executor.
LEMMA RejectAway ==
  ASSUME TaskTypes, NEW t \in Task, NEW a \in Action, Reject(t, a)
  PROVE  TaskTypes' /\ Away(t)
<1> USE DEF Reject, MayDecide, TaskTypes, Goto, taskVars, PC, Told, Away,
    Holding
<1>1. CASE t \in Poller
  <2>1. pc' \in [Task -> PC] /\ pc'[t] = "reply"
    BY <1>1
  <2>2. act' \in [Task -> Action \cup {NoAction}] /\ act'[t] = a
    BY <1>1
  <2>3. told' \in [Task -> Told]
    BY <1>1
  <2> QED BY <1>1, <2>1, <2>2, <2>3
<1>2. CASE t \notin Poller
  BY <1>2
<1> QED BY <1>1, <1>2

\* Closing an open run moves it from one count to another.
LEMMA CloseRunMoves ==
  ASSUME runs \in [Action -> [running : Nat, ok : Nat, error : Nat]],
         NEW a \in Action, runs[a].running > 0, NEW result \in {"ok", "error"},
         CloseRun(a, result)
  PROVE  /\ runs' \in [Action -> [running : Nat, ok : Nat, error : Nat]]
         /\ \A b \in Action : Total(b)' = Total(b)
         /\ \A b \in Action \ {a} : runs'[b] = runs[b]
<1>1. runs' \in [Action -> [running : Nat, ok : Nat, error : Nat]]
  BY DEF CloseRun
<1>2. \A b \in Action \ {a} : runs'[b] = runs[b]
  BY DEF CloseRun
<1>3. Total(a)' = Total(a)
  <2>1. CASE result = "ok"
    BY <2>1 DEF CloseRun, Total
  <2>2. CASE result = "error"
    BY <2>2 DEF CloseRun, Total
  <2> QED BY <2>1, <2>2
<1>4. \A b \in Action \ {a} : Total(b)' = Total(b)
  BY <1>2 DEF Total
<1> QED BY <1>1, <1>2, <1>3, <1>4

\* mark_executed and mark_failed write one of two statuses.
LEMMA VerdictIsFinal ==
  ASSUME NEW t \in Task PROVE Verdict(t) \in {"executed", "failed"}
BY DEF Verdict

-----------------------------------------------------------------------------
(* The steps that leave the executor, or never enter it                     *)

Departs(t) ==
  /\ Away(t)
  /\ proc \in {"up", "stopping"}
  /\ UNCHANGED <<proc, todo, sent, wire, tool>>
  /\ \/ stamped' = stamped
     \/ pc[t] = "stamp" /\ stamped' = [stamped EXCEPT ![act[t]] = TRUE]
  /\ \/ runs' = runs
     \/ /\ pc[t] \in Holding
        /\ \A b \in Action : Total(b)' = Total(b)
        /\ \A b \in Action \ {act[t]} : runs'[b] = runs[b]
  /\ human \subseteq human'
  /\ \/ status' = status
     \/ \E a \in Action : Transition(a, "proposed", "rejected")
     \/ \E a \in Action : Transition(a, "proposed", "approved") /\ a \in human'

\* A proposal that is denied, shown or answered, and a poller told to stop, depart.
LEMMA RequestDeparts ==
  ASSUME Base, NEW t \in Task,
         \/ SubmitDeny(t) \/ PushSend(t) \/ Answer(t) \/ PollerStops(t)
         \/ PushRead(t) /\ status[act[t]] # "proposed"
         \/ SubmitAuto(t) /\ status[act[t]] # "proposed"
  PROVE  Departs(t)
<1> USE DEF Base, TypeOK, TaskTypes, Attribution
<1>1. CASE SubmitDeny(t)
  <2>1. Away(t)
    BY <1>1, FinishedAway DEF SubmitDeny
  <2>2. status' = status \/ Transition(act[t], "proposed", "rejected")
    BY <1>1 DEF SubmitDeny
  <2> QED BY <1>1, <2>1, <2>2 DEF SubmitDeny, Departs, reportVars, outsideVars
<1>2. CASE PushSend(t)
  <2>1. Away(t)
    BY <1>2, FinishedAway DEF PushSend
  <2> QED BY <1>2, <2>1 DEF PushSend, Departs, rowVars, reportVars
<1>3. CASE Answer(t) \/ PollerStops(t)
  <2>1. Away(t)
    BY <1>3, FinishedAway DEF Answer, PollerStops
  <2> QED BY <1>3, <2>1 DEF Answer, PollerStops, Departs, rowVars, reportVars,
      outsideVars
<1>4. CASE PushRead(t) /\ status[act[t]] # "proposed"
  <2>1. Away(t)
    BY <1>4, FinishedAway DEF PushRead
  <2> QED BY <1>4, <2>1 DEF PushRead, Departs, rowVars, reportVars, outsideVars
<1>5. CASE SubmitAuto(t) /\ status[act[t]] # "proposed"
  <2>1. Away(t) /\ status' = status
    BY <1>5, FinishedAway DEF SubmitAuto, Transition
  <2> QED BY <1>5, <2>1 DEF SubmitAuto, Departs, reportVars, outsideVars
<1> QED BY <1>1, <1>2, <1>3, <1>4, <1>5

\* So does a decision that is made elsewhere, refused, or fails.
LEMMA DecisionDeparts ==
  ASSUME Base, NEW t \in Task, NEW a \in Action,
         \/ Reject(t, a) \/ TooLate(t, a) \/ DecisionFault(t, a)
         \/ ApproveUnacknowledged(t, a)
  PROVE  Departs(t)
<1> USE DEF Base, TypeOK, TaskTypes, MayDecide, Serving
<1>1. CASE Reject(t, a)
  <2>1. Away(t)
    BY <1>1, RejectAway
  <2> QED BY <1>1, <2>1 DEF Reject, Departs, reportVars, outsideVars
<1>2. CASE TooLate(t, a) \/ DecisionFault(t, a)
  <2>1. Away(t)
    BY <1>2, NotAppliedAway DEF TooLate, DecisionFault
  <2> QED BY <1>2, <2>1 DEF TooLate, DecisionFault, Departs, rowVars,
      reportVars, outsideVars
<1>3. CASE ApproveUnacknowledged(t, a)
  <2>1. Away(t)
    BY <1>3, NotAppliedAway DEF ApproveUnacknowledged
  <2> QED BY <1>3, <2>1 DEF ApproveUnacknowledged, Departs, reportVars,
      outsideVars
<1> QED BY <1>1, <1>2, <1>3

\* So does an execution that is refused, fails or is recorded.
LEMMA ExecutionDeparts ==
  ASSUME Base, NEW t \in Task,
         \/ Claim(t) /\ act[t] \in inFlight
         \/ Get(t) /\ status[act[t]] # "approved"
         \/ Refuse(t) \/ Finish(t) \/ StampUnacknowledged(t) \/ StoreFault(t)
  PROVE  Departs(t)
<1> USE DEF Base, TypeOK, TaskTypes, Attribution, Claiming, Holding, Told, Wire
<1>1. CASE Claim(t) /\ act[t] \in inFlight
  <2>1. Away(t)
    BY <1>1, ReturnedAway DEF Claim
  <2> QED BY <1>1, <2>1 DEF Claim, Departs, rowVars, reportVars, outsideVars
<1>2. CASE Get(t) /\ status[act[t]] # "approved"
  <2>1. Away(t)
    BY <1>2, ReturnedAway DEF Get
  <2> QED BY <1>2, <2>1 DEF Get, Departs, rowVars, reportVars, outsideVars
<1>3. CASE Refuse(t)
  <2>1. Away(t)
    BY <1>3, ReturnedAway DEF Refuse
  <2>2. /\ act[t] \in Action /\ runs[act[t]].running > 0
        /\ "error" \in {"ok", "error"} /\ CloseRun(act[t], "error")
    BY <1>3 DEF Refuse
  <2>3. /\ \A b \in Action : Total(b)' = Total(b)
        /\ \A b \in Action \ {act[t]} : runs'[b] = runs[b]
    BY <2>2, CloseRunMoves
  <2> QED BY <1>3, <2>1, <2>3 DEF Refuse, Departs, reportVars, outsideVars
<1>4. CASE Finish(t)
  <2>1. Away(t)
    BY <1>4, ReturnedAway DEF Finish
  <2>2. /\ act[t] \in Action /\ runs[act[t]].running > 0
        /\ outcome[t] \in {"ok", "error"} /\ CloseRun(act[t], outcome[t])
    BY <1>4 DEF Finish
  <2>3. /\ \A b \in Action : Total(b)' = Total(b)
        /\ \A b \in Action \ {act[t]} : runs'[b] = runs[b]
    BY <2>2, CloseRunMoves
  <2> QED BY <1>4, <2>1, <2>3 DEF Finish, Departs, reportVars, outsideVars
<1>5. CASE StampUnacknowledged(t)
  <2>1. Away(t)
    BY <1>5, ReturnedAway DEF StampUnacknowledged
  <2> QED BY <1>5, <2>1 DEF StampUnacknowledged, Departs, reportVars,
      outsideVars
<1>6. CASE StoreFault(t)
  <2>1. Away(t)
    BY <1>6, ReturnedAway DEF StoreFault
  <2> QED BY <1>6, <2>1 DEF StoreFault, Departs, rowVars, reportVars,
      outsideVars
<1> QED BY <1>1, <1>2, <1>3, <1>4, <1>5, <1>6

-----------------------------------------------------------------------------
(* The other steps, sorted by who takes them                                *)

\* A task goes on with the request it is serving.
Proceeds(t) ==
  \/ SubmitAuto(t) /\ status[act[t]] = "proposed"
  \/ PushRead(t) /\ status[act[t]] = "proposed"
  \/ ReadBack(t)
  \/ Claim(t) /\ act[t] \notin inFlight
  \/ Get(t) /\ status[act[t]] = "approved"
  \/ StartRun(t) \/ Stamp(t) \/ Call(t) \/ CallFails(t) \/ Receive(t)
  \/ GiveUp(t) \/ Record(t) \/ RecordFault(t)

\* A task takes up a request that leads to the executor.
Enters(t, a) ==
  (\E tl \in Tool : Submit(t, a, tl)) \/ Approve(t, a) \/ Execute(t, a)

\* The process starts, sweeps, or is asked to stop.
Lifecycle == Start \/ SweepReport \/ Bind \/ Sigterm

\* Every step departs, or is one of the few that go on.
LEMMA StepCases ==
  ASSUME Base, [Next]_vars
  PROVE  \/ UNCHANGED vars
         \/ \E t \in Task : Departs(t) \/ Proceeds(t)
         \/ \E t \in Task, a \in Action : Enters(t, a)
         \/ \E a \in Action : SweepFail(a) \/ Connector(a) \/ Deadline(a)
         \/ Expire \/ Lifecycle \/ Stop \/ Crash
<1>1. ASSUME NEW t \in Task, Advance(t) \/ Faults(t) \/ PollerStops(t)
      PROVE  Departs(t) \/ Proceeds(t)
  <2>1. Advance(t) => Departs(t) \/ Proceeds(t)
    BY RequestDeparts, ExecutionDeparts DEF Advance, Proceeds
  <2>2. Faults(t) \/ PollerStops(t) => Departs(t) \/ Proceeds(t)
    BY RequestDeparts, ExecutionDeparts DEF Faults, Proceeds
  <2> QED BY <1>1, <2>1, <2>2
<1>2. ASSUME NEW t \in Task, NEW a \in Action, Requests(t, a)
      PROVE  Departs(t) \/ Enters(t, a)
  BY <1>2, DecisionDeparts DEF Requests, Enters
<1> QED BY <1>1, <1>2 DEF Next, Sweep, Lifecycle

\* Recording an outcome writes it, or writes nothing, on this row alone.
LEMMA RecordWrites ==
  ASSUME Base, NEW t \in Task, Record(t) \/ RecordFault(t)
  PROVE  /\ pc[t] = "record" /\ pc'[t] \in {"finish", "finish_unrecorded"}
         /\ \A u \in Task \ {t} : pc'[u] = pc[u]
         /\ \A b \in Action \ {act[t]} : status'[b] = status[b]
         /\ \/ status'[act[t]] = status[act[t]]
            \/ status[act[t]] = "approved" /\ status'[act[t]] = Verdict(t)
         /\ UNCHANGED <<stamped, tool, runs, act, outcome, inFlight, sent, wire,
                        human, proc>>
<1> USE DEF Base, TypeOK, Goto, Transition, reportVars, outsideVars
<1>1. act[t] \in Action /\ pc[t] = "record"
  BY DEF Attribution, Record, RecordFault
<1>2. \/ status' = status
      \/ /\ status[act[t]] = "approved"
         /\ status' = [status EXCEPT ![act[t]] = Verdict(t)]
  BY DEF Record, RecordFault
<1>3. /\ \A b \in Action \ {act[t]} : status'[b] = status[b]
      /\ \/ status'[act[t]] = status[act[t]]
         \/ status[act[t]] = "approved" /\ status'[act[t]] = Verdict(t)
  BY <1>1, <1>2
<1>4. CASE Record(t)
  BY <1>1, <1>3, <1>4 DEF Record
<1>5. CASE RecordFault(t)
  BY <1>1, <1>3, <1>5 DEF RecordFault
<1> QED BY <1>4, <1>5

-----------------------------------------------------------------------------
(* Every step keeps every layer of the invariant                             *)

\* A step that moves the tasks only has the tasks' types to keep.
LEMMA OnlyTasksMove ==
  ASSUME TypeOK, TaskTypes',
         UNCHANGED <<rowVars, reportVars, outsideVars, proc, human, trouble>>
  PROVE  TypeOK'
BY DEF TypeOK, TaskTypes, rowVars, reportVars, outsideVars

\* Every step keeps every variable in its type.
LEMMA TypeStep ==
  ASSUME Base, [Next]_vars PROVE TypeOK'
<1> USE GateAssumption
<1> USE DEF Base, TypeOK, TaskTypes, Attribution, Claiming, Holding, PC,
           Status, Outcome, Told, Wire
<1>1. ASSUME NEW t \in Task, Advance(t) PROVE TypeOK'
  <2>1. CASE SubmitDeny(t)
    <3>1. TaskTypes'
      BY <2>1, FinishedAway DEF SubmitDeny
    <3>2. status' \in [Action -> Status]
      BY <2>1 DEF SubmitDeny, Transition
    <3> QED BY <2>1, <3>1, <3>2 DEF SubmitDeny, reportVars, outsideVars
  <2>2. CASE SubmitAuto(t)
    <3>1. CASE /\ Transition(act[t], "proposed", "approved") /\ Goto(t, "claim")
               /\ UNCHANGED <<act, outcome, told, inFlight>>
      BY <2>2, <3>1 DEF SubmitAuto, Transition, Goto, reportVars, outsideVars
    <3>2. CASE Finished(t) /\ UNCHANGED status
      BY <2>2, <3>2, FinishedAway DEF SubmitAuto, reportVars, outsideVars
    <3> QED BY <2>2, <3>1, <3>2 DEF SubmitAuto
  <2>3. CASE PushRead(t)
    <3>1. CASE status[act[t]] = "proposed"
      BY <2>3, <3>1 DEF PushRead, Goto, rowVars, reportVars, outsideVars
    <3>2. CASE status[act[t]] # "proposed"
      BY <2>3, <3>2, FinishedAway DEF PushRead, rowVars, reportVars, outsideVars
    <3> QED BY <2>3, <3>1, <3>2 DEF PushRead
  <2>4. CASE PushSend(t)
    BY <2>4, FinishedAway DEF PushSend, rowVars, reportVars
  <2>5. CASE ReadBack(t)
    BY <2>5 DEF ReadBack, Goto, rowVars, reportVars, outsideVars
  <2>6. CASE Answer(t)
    BY <2>6, FinishedAway DEF Answer, rowVars, reportVars, outsideVars
  <2>7. CASE Claim(t)
    <3>1. CASE act[t] \in inFlight
      <4>1. TaskTypes'
        BY <2>7, <3>1, ReturnedAway DEF Claim
      <4> QED BY <2>7, <4>1, OnlyTasksMove DEF Claim
    <3>2. CASE act[t] \notin inFlight
      <4>1. pc[t] = "claim" /\ act[t] \in Action
        BY <2>7 DEF Claim
      <4>2. pc' \in [Task -> PC]
        BY <2>7, <3>2 DEF Claim, Goto
      <4>3. inFlight' \subseteq Action
        BY <2>7, <3>2, <4>1 DEF Claim
      <4>4. TaskTypes'
        BY <2>7, <3>2, <4>2, <4>3 DEF Claim
      <4> QED BY <2>7, <4>4, OnlyTasksMove DEF Claim
    <3> QED BY <2>7, <3>1, <3>2 DEF Claim
  <2>8. CASE Get(t)
    <3>1. CASE status[act[t]] = "approved"
      <4>1. TaskTypes'
        BY <2>8, <3>1 DEF Get, Goto
      <4> QED BY <2>8, <4>1, OnlyTasksMove DEF Get
    <3>2. CASE status[act[t]] # "approved"
      <4>1. TaskTypes'
        BY <2>8, <3>2, ReturnedAway DEF Get
      <4> QED BY <2>8, <4>1, OnlyTasksMove DEF Get
    <3> QED BY <2>8, <3>1, <3>2 DEF Get
  <2>9. CASE StartRun(t)
    BY <2>9 DEF StartRun, Goto, reportVars, outsideVars
  <2>10. CASE Stamp(t)
    <3>1. CASE Claimable(act[t])
      BY <2>10, <3>1 DEF Stamp, Goto, reportVars, outsideVars
    <3>2. CASE ~Claimable(act[t])
      BY <2>10, <3>2 DEF Stamp, Goto, reportVars, outsideVars
    <3> QED BY <2>10, <3>1, <3>2 DEF Stamp
  <2>11. CASE Refuse(t)
    <3>1. /\ act[t] \in Action /\ runs[act[t]].running > 0
          /\ "error" \in {"ok", "error"} /\ CloseRun(act[t], "error")
      BY <2>11 DEF Refuse
    <3>2. runs' \in [Action -> [running : Nat, ok : Nat, error : Nat]]
      BY <3>1, CloseRunMoves
    <3>3. TaskTypes'
      BY <2>11, <3>1, ReturnedAway DEF Refuse
    <3> QED BY <2>11, <3>2, <3>3 DEF Refuse, reportVars, outsideVars
  <2>12. CASE Call(t)
    BY <2>12 DEF Call, Goto, rowVars, reportVars
  <2>13. CASE CallFails(t)
    BY <2>13 DEF CallFails, Outcomes, Goto, rowVars, reportVars, outsideVars
  <2>14. CASE Receive(t)
    <3>1. CASE Outcomes(t, "ok")
      BY <2>14, <3>1 DEF Receive, Outcomes, Goto, rowVars, reportVars,
         outsideVars
    <3>2. CASE Outcomes(t, "error")
      BY <2>14, <3>2 DEF Receive, Outcomes, Goto, rowVars, reportVars,
         outsideVars
    <3> QED BY <2>14, <3>1, <3>2 DEF Receive
  <2>15. CASE GiveUp(t)
    BY <2>15 DEF GiveUp, Outcomes, Goto, rowVars, reportVars, outsideVars
  <2>16. CASE Record(t)
    <3>1. CASE status[act[t]] = "approved"
      <4>1. status' \in [Action -> Status]
        BY <2>16, <3>1, VerdictIsFinal DEF Record, Transition
      <4>2. pc' \in [Task -> PC]
        BY <2>16, <3>1 DEF Record, Goto
      <4> QED BY <2>16, <3>1, <4>1, <4>2 DEF Record, reportVars, outsideVars
    <3>2. CASE status[act[t]] # "approved"
      BY <2>16, <3>2 DEF Record, Goto, reportVars, outsideVars
    <3> QED BY <2>16, <3>1, <3>2 DEF Record
  <2>17. CASE Finish(t)
    <3>1. /\ act[t] \in Action /\ runs[act[t]].running > 0
          /\ outcome[t] \in {"ok", "error"} /\ CloseRun(act[t], outcome[t])
      BY <2>17 DEF Finish
    <3>2. runs' \in [Action -> [running : Nat, ok : Nat, error : Nat]]
      BY <3>1, CloseRunMoves
    <3>3. TaskTypes'
      BY <2>17, <3>1, ReturnedAway DEF Finish
    <3> QED BY <2>17, <3>2, <3>3 DEF Finish, reportVars, outsideVars
  <2> QED BY <1>1, <2>1, <2>2, <2>3, <2>4, <2>5, <2>6, <2>7, <2>8, <2>9, <2>10,
      <2>11, <2>12, <2>13, <2>14, <2>15, <2>16, <2>17 DEF Advance
<1>2. ASSUME NEW t \in Task, Faults(t) \/ PollerStops(t) PROVE TypeOK'
  <2>1. CASE StampUnacknowledged(t)
    BY <2>1, ReturnedAway DEF StampUnacknowledged, Trouble, reportVars,
       outsideVars
  <2>2. CASE RecordFault(t)
    <3>1. CASE UNCHANGED status
      BY <2>2, <3>1 DEF RecordFault, Trouble, Goto, reportVars, outsideVars
    <3>2. CASE Transition(act[t], "approved", Verdict(t))
      BY <2>2, <3>2, VerdictIsFinal DEF RecordFault, Trouble, Transition, Goto,
         reportVars, outsideVars
    <3> QED BY <2>2, <3>1, <3>2 DEF RecordFault, Transition
  <2>3. CASE StoreFault(t)
    BY <2>3, ReturnedAway DEF StoreFault, Trouble, rowVars, reportVars,
       outsideVars
  <2>4. CASE PollerStops(t)
    BY <2>4, FinishedAway DEF PollerStops, rowVars, reportVars, outsideVars
  <2> QED BY <1>2, <2>1, <2>2, <2>3, <2>4 DEF Faults
<1>3. ASSUME NEW t \in Task, NEW a \in Action, Requests(t, a) PROVE TypeOK'
  <2>1. CASE Approve(t, a)
    BY <2>1 DEF Approve, MayDecide, Transition, Goto, reportVars, outsideVars
  <2>2. CASE ApproveUnacknowledged(t, a)
    BY <2>2, NotAppliedAway DEF ApproveUnacknowledged, MayDecide, Transition,
       Trouble, reportVars, outsideVars
  <2>3. CASE Reject(t, a)
    BY <2>3, RejectAway DEF Reject, MayDecide, Transition, reportVars,
       outsideVars
  <2>4. CASE TooLate(t, a)
    BY <2>4, NotAppliedAway DEF TooLate, MayDecide, rowVars, reportVars,
       outsideVars
  <2>5. CASE DecisionFault(t, a)
    BY <2>5, NotAppliedAway DEF DecisionFault, MayDecide, Trouble, rowVars,
       reportVars, outsideVars
  <2>6. CASE Execute(t, a)
    BY <2>6 DEF Execute, Goto, rowVars, reportVars, outsideVars
  <2>7. ASSUME NEW tl \in Tool, Submit(t, a, tl) PROVE TypeOK'
    BY <2>7 DEF Submit, Goto, reportVars, outsideVars
  <2> QED BY <1>3, <2>1, <2>2, <2>3, <2>4, <2>5, <2>6, <2>7 DEF Requests
<1>4. ASSUME NEW a \in Action,
    SweepFail(a) \/ Connector(a) \/ Deadline(a) PROVE TypeOK'
  <2>1. CASE SweepFail(a)
    <3>1. CASE Stranded(a)
      BY <2>1, <3>1 DEF SweepFail, Transition, taskVars, outsideVars
    <3>2. CASE ~Stranded(a)
      BY <2>1, <3>2 DEF SweepFail, taskVars, outsideVars
    <3> QED BY <2>1, <3>1, <3>2 DEF SweepFail
  <2>2. CASE Connector(a)
    BY <2>2 DEF Connector, rowVars, reportVars, taskVars
  <2>3. CASE Deadline(a)
    BY <2>3 DEF Deadline, reportVars, taskVars, outsideVars
  <2> QED BY <1>4, <2>1, <2>2, <2>3
<1>5. ASSUME Expire \/ Start \/ SweepReport \/ Bind \/ Sigterm \/ Stop \/ Crash
      PROVE  TypeOK'
  <2>1. CASE Expire
    BY <2>1 DEF Expire, reportVars, taskVars, outsideVars
  <2>2. CASE Start
    BY <2>2 DEF Start, rowVars, taskVars, outsideVars
  <2>3. CASE SweepReport
    BY <2>3 DEF SweepReport, rowVars, taskVars, outsideVars
  <2>4. CASE Bind
    BY <2>4 DEF Bind, rowVars, reportVars, taskVars, outsideVars
  <2>5. CASE Sigterm
    BY <2>5 DEF Sigterm, Trouble, rowVars, reportVars, taskVars, outsideVars
  <2>6. CASE Stop
    BY <2>6 DEF Stop, Dies, rowVars, outsideVars
  <2>7. CASE Crash
    BY <2>7 DEF Crash, Trouble, Dies, rowVars, outsideVars
  <2> QED BY <1>5, <2>1, <2>2, <2>3, <2>4, <2>5, <2>6, <2>7
<1>6. CASE UNCHANGED vars
  BY <1>6 DEF vars, rowVars, reportVars, taskVars, outsideVars
<1> QED BY <1>1, <1>2, <1>3, <1>4, <1>5, <1>6 DEF Next, Sweep

\* Who works on which row: a claim that is held is held by one task, on a row in
\* flight, with an open run once it has started one.
LEMMA AttributionStep ==
  ASSUME Base, TypeOK', [Next]_vars PROVE (Attribution /\ OneExecutionAtATime)'
<1> USE DEF Base, TypeOK, Attribution, OneExecutionAtATime, Claiming, Holding
<1>1. ASSUME NEW t \in Task, Departs(t) PROVE (Attribution
    /\ OneExecutionAtATime)'
  <2>1. pc'[t] \notin Holding /\ (pc'[t] # "idle" => act'[t] \in Action)
    BY <1>1 DEF Departs, Away
  <2>2. \A u \in Task \ {t} :
          pc'[u] = pc[u] /\ act'[u] = act[u] /\ outcome'[u] = outcome[u]
    BY <1>1 DEF Departs, Away
  <2>3. \A u \in Task \ {t} : pc[u] \in Holding =>
          act[u] \in inFlight' /\ runs'[act[u]] = runs[act[u]]
    BY <1>1 DEF Departs, Away
  <2>4. proc' \notin {"down", "starting"}
    BY <1>1 DEF Departs
  <2>5. ASSUME NEW u \in Task, NEW v \in Task,
               pc'[u] \in Holding, pc'[v] \in Holding, act'[u] = act'[v]
        PROVE  u = v
    BY <2>1, <2>2, <2>5
  <2>6. ASSUME NEW u \in Task \ {t}
        PROVE  /\ pc'[u] # "idle" => act'[u] \in Action
               /\ pc'[u] \in Holding => act'[u] \in inFlight'
               /\ pc'[u] \in Claiming => runs'[act'[u]].running > 0
               /\ pc'[u] \in {"record", "finish", "finish_unrecorded"}
                    => outcome'[u] \in {"ok", "error"}
    BY <2>2, <2>3
  <2>7. UNCHANGED <<proc, todo>>
    BY <1>1 DEF Departs
  <2> QED BY <2>1, <2>4, <2>5, <2>6, <2>7
<1>2. ASSUME NEW t \in Task, Proceeds(t) PROVE (Attribution
    /\ OneExecutionAtATime)'
  <2>1. CASE SubmitAuto(t) /\ status[act[t]] = "proposed"
    BY <2>1 DEF SubmitAuto, Transition, Goto, reportVars, outsideVars
  <2>2. CASE PushRead(t) /\ status[act[t]] = "proposed"
    BY <2>2 DEF PushRead, Goto, rowVars, reportVars, outsideVars
  <2>3. CASE ReadBack(t)
    BY <2>3 DEF ReadBack, Goto, rowVars, reportVars, outsideVars
  <2>4. CASE Claim(t) /\ act[t] \notin inFlight
    BY <2>4 DEF Claim, Goto, rowVars, reportVars, outsideVars
  <2>5. CASE Get(t) /\ status[act[t]] = "approved"
    BY <2>5 DEF Get, Goto, rowVars, reportVars, outsideVars
  <2>6. CASE StartRun(t)
    BY <2>6 DEF StartRun, Goto, reportVars, outsideVars
  <2>7. CASE Stamp(t)
    BY <2>7 DEF Stamp, Claimable, Goto, reportVars, outsideVars
  <2>8. CASE Call(t)
    BY <2>8 DEF Call, Goto, rowVars, reportVars
  <2>9. CASE CallFails(t) \/ Receive(t) \/ GiveUp(t)
    <3>1. PICK r \in {"ok", "error"} : Outcomes(t, r)
      BY <2>9 DEF CallFails, Receive, GiveUp
    <3>2. pc[t] \in {"call", "await"}
      BY <2>9 DEF CallFails, Receive, GiveUp
    <3>3. pc' = [pc EXCEPT ![t] = "record"]
      BY <3>1 DEF Outcomes, Goto
    <3>4. outcome' = [outcome EXCEPT ![t] = r]
      BY <3>1 DEF Outcomes
    <3>5. UNCHANGED <<runs, act, inFlight, todo, proc>>
      BY <3>1 DEF Outcomes, rowVars, reportVars
    <3> QED BY <3>2, <3>3, <3>4, <3>5
  <2>10. CASE Record(t)
    BY <2>10, VerdictIsFinal DEF Record, Transition, Goto, reportVars,
       outsideVars
  <2>11. CASE RecordFault(t)
    BY <2>11, VerdictIsFinal DEF RecordFault, Transition, Goto, reportVars,
       outsideVars
  <2> QED BY <1>2, <2>1, <2>2, <2>3, <2>4, <2>5, <2>6, <2>7, <2>8, <2>9, <2>10,
      <2>11 DEF Proceeds
<1>3. ASSUME NEW t \in Task, NEW a \in Action, Enters(t, a)
    PROVE (Attribution /\ OneExecutionAtATime)'
  <2>1. ASSUME NEW tl \in Tool, Submit(t, a, tl) PROVE (Attribution
      /\ OneExecutionAtATime)'
    <3>1. pc[t] = "idle" /\ pc'[t] \in {"deny", "auto", "push"} /\ act'[t] = a
      BY <2>1 DEF Submit, Goto
    <3>2. \A u \in Task \ {t} : pc'[u] = pc[u] /\ act'[u] = act[u]
      BY <2>1 DEF Submit, Goto
    <3> QED BY <2>1, <3>1, <3>2 DEF Submit, Serving, reportVars
  <2>2. CASE Approve(t, a)
    BY <2>2 DEF Approve, MayDecide, Serving, Transition, Goto, reportVars,
       outsideVars
  <2>3. CASE Execute(t, a)
    BY <2>3 DEF Execute, Serving, Goto, rowVars, reportVars, outsideVars
  <2> QED BY <1>3, <2>1, <2>2, <2>3 DEF Enters
<1>4. ASSUME NEW a \in Action, SweepFail(a) \/ Connector(a) \/ Deadline(a)
      PROVE  (Attribution /\ OneExecutionAtATime)'
  <2>1. CASE SweepFail(a)
    BY <2>1 DEF SweepFail, Stranded, Transition, taskVars, outsideVars
  <2>2. CASE Connector(a)
    BY <2>2 DEF Connector, rowVars, reportVars, taskVars
  <2>3. CASE Deadline(a)
    BY <2>3 DEF Deadline, reportVars, taskVars, outsideVars
  <2> QED BY <1>4, <2>1, <2>2, <2>3
<1>5. CASE Expire
  BY <1>5 DEF Expire, reportVars, taskVars, outsideVars
<1>6. CASE Lifecycle
  BY <1>6 DEF Lifecycle, Start, SweepReport, Bind, Sigterm, rowVars, reportVars,
                taskVars, outsideVars
<1>7. CASE Stop \/ Crash
  BY <1>7 DEF Stop, Crash, Dies, rowVars, outsideVars
<1>8. CASE UNCHANGED vars
  BY <1>8 DEF vars, rowVars, reportVars, taskVars, outsideVars
<1> QED BY <1>1, <1>2, <1>3, <1>4, <1>5, <1>6, <1>7, <1>8, StepCases

\* What has been sent: only past the durable claim, and once.
LEMMA SendingStep ==
  ASSUME Base, Base', Sending, [Next]_vars PROVE Sending'
<1> USE DEF Base, TypeOK, Attribution, OneExecutionAtATime, Holding, AtCall,
    Sending, AtMostOneCall
<1>1. ASSUME NEW t \in Task, Departs(t) PROVE Sending'
  <2>1. pc'[t] \notin AtCall
    BY <1>1 DEF Departs, Away
  <2>2. \A u \in Task \ {t} : pc'[u] = pc[u] /\ act'[u] = act[u]
    BY <1>1 DEF Departs, Away
  <2>3. \A a \in Action : stamped[a] => stamped'[a]
    BY <1>1 DEF Departs
  <2> QED BY <1>1, <2>1, <2>2, <2>3 DEF Departs
<1>2. ASSUME NEW t \in Task, Proceeds(t) PROVE Sending'
  <2>1. CASE SubmitAuto(t) /\ status[act[t]] = "proposed"
    BY <2>1 DEF SubmitAuto, Transition, Goto, reportVars, outsideVars
  <2>2. CASE PushRead(t) /\ status[act[t]] = "proposed"
    BY <2>2 DEF PushRead, Goto, rowVars, reportVars, outsideVars
  <2>3. CASE ReadBack(t)
    BY <2>3 DEF ReadBack, Goto, rowVars, reportVars, outsideVars
  <2>4. CASE Claim(t) /\ act[t] \notin inFlight
    BY <2>4 DEF Claim, Goto, rowVars, reportVars, outsideVars
  <2>5. CASE Get(t) /\ status[act[t]] = "approved"
    BY <2>5 DEF Get, Goto, rowVars, reportVars, outsideVars
  <2>6. CASE StartRun(t)
    BY <2>6 DEF StartRun, Goto, reportVars, outsideVars
  <2>7. CASE Stamp(t)
    BY <2>7 DEF Stamp, Claimable, Goto, reportVars, outsideVars
  <2>8. CASE Call(t)
    BY <2>8 DEF Call, Goto, rowVars, reportVars
  <2>9. CASE CallFails(t) \/ Receive(t) \/ GiveUp(t)
    BY <2>9 DEF CallFails, Receive, GiveUp, Outcomes, Goto, rowVars,
       reportVars, outsideVars
  <2>10. CASE Record(t)
    BY <2>10, VerdictIsFinal DEF Record, Transition, Goto, reportVars,
       outsideVars
  <2>11. CASE RecordFault(t)
    BY <2>11, VerdictIsFinal DEF RecordFault, Transition, Goto, reportVars,
       outsideVars
  <2> QED BY <1>2, <2>1, <2>2, <2>3, <2>4, <2>5, <2>6, <2>7, <2>8, <2>9, <2>10,
      <2>11 DEF Proceeds
<1>3. ASSUME NEW t \in Task, NEW a \in Action, Enters(t, a) PROVE Sending'
  <2>1. ASSUME NEW tl \in Tool, Submit(t, a, tl) PROVE Sending'
    BY <2>1 DEF Submit, Goto, reportVars, outsideVars
  <2>2. CASE Approve(t, a)
    BY <2>2 DEF Approve, MayDecide, Serving, Transition, Goto, reportVars,
       outsideVars
  <2>3. CASE Execute(t, a)
    BY <2>3 DEF Execute, Serving, Goto, rowVars, reportVars, outsideVars
  <2> QED BY <1>3, <2>1, <2>2, <2>3 DEF Enters
<1>4. ASSUME NEW a \in Action, SweepFail(a) \/ Connector(a) \/ Deadline(a)
      PROVE  Sending'
  <2>1. CASE SweepFail(a)
    BY <2>1 DEF SweepFail, Stranded, Transition, taskVars, outsideVars
  <2>2. CASE Connector(a)
    BY <2>2 DEF Connector, rowVars, reportVars, taskVars
  <2>3. CASE Deadline(a)
    BY <2>3 DEF Deadline, reportVars, taskVars, outsideVars
  <2> QED BY <1>4, <2>1, <2>2, <2>3
<1>5. CASE Expire
  BY <1>5 DEF Expire, reportVars, taskVars, outsideVars
<1>6. CASE Lifecycle
  BY <1>6 DEF Lifecycle, Start, SweepReport, Bind, Sigterm, rowVars, reportVars,
                taskVars, outsideVars
<1>7. CASE Stop \/ Crash
  BY <1>7 DEF Stop, Crash, Dies, rowVars, outsideVars
<1>8. CASE UNCHANGED vars
  BY <1>8 DEF vars, rowVars, reportVars, taskVars, outsideVars
<1> QED BY <1>1, <1>2, <1>3, <1>4, <1>5, <1>6, <1>7, <1>8, StepCases

\* What has been decided: a grant is by consent and is nobody's to take back.
LEMMA DecidingStep ==
  ASSUME Base, Base', Deciding, [Next]_vars PROVE Deciding'
<1> USE DEF Base, TypeOK, Attribution, OneExecutionAtATime, Claiming, Holding,
    Deciding, OutcomeIsTheCallers, Executing, Granted, Consent, Decide
<1>1. ASSUME NEW t \in Task, Departs(t) PROVE Deciding'
  <2>1. pc'[t] \notin {"call", "await", "record", "auto"}
    BY <1>1 DEF Departs, Away
  <2>2. \A u \in Task \ {t} : pc'[u] = pc[u] /\ act'[u] = act[u]
    BY <1>1 DEF Departs, Away
  <2>3. \A a \in Action :
          /\ status[a] \in Granted => status'[a] = status[a]
          /\ status[a] # "absent" => status'[a] # "absent"
          /\ status'[a] \in Granted => status[a] \in Granted \/ a \in human'
    BY <1>1 DEF Departs, Transition
  <2>4. UNCHANGED <<sent, tool>> /\ human \subseteq human'
    BY <1>1 DEF Departs
  <2>5. ASSUME NEW u \in Task, Executing(u)' PROVE status'[act'[u]] = "approved"
    <3>1. u # t /\ pc'[u] = pc[u] /\ act'[u] = act[u]
      BY <2>1, <2>2, <2>5
    <3>2. act[u] \in Action /\ status[act[u]] = "approved"
      BY <2>5, <3>1
    <3> QED BY <2>3, <3>1, <3>2
  <2>6. \A u \in Task : pc'[u] = "auto" =>
          pc[u] = "auto" /\ act'[u] = act[u] /\ status'[act'[u]] # "absent"
    BY <2>1, <2>2, <2>3
  <2>7. \A a \in Action :
          /\ sent'[a] > 0 => status'[a] \in Granted
          /\ status'[a] \in Granted => Consent(a)'
    BY <2>3, <2>4
  <2> QED BY <2>4, <2>5, <2>6, <2>7
<1>2. ASSUME NEW t \in Task, Proceeds(t) PROVE Deciding'
  <2>1. CASE SubmitAuto(t) /\ status[act[t]] = "proposed"
    <3>1. /\ pc' = [pc EXCEPT ![t] = "claim"]
          /\ UNCHANGED <<act, sent, tool, human>>
          /\ status' = [status EXCEPT ![act[t]] = "approved"]
      BY <2>1 DEF SubmitAuto, Transition, Goto, outsideVars
    <3>2. \A u \in Task : Executing(u)' => Executing(u)
      BY <3>1
    <3>3. \A u \in Task : pc'[u] = "auto" => pc[u] = "auto"
      BY <3>1
    <3>4. pc[t] = "auto" /\ act[t] \in Action
      BY <2>1 DEF SubmitAuto
    <3> QED BY <3>1, <3>2, <3>3, <3>4
  <2>2. CASE PushRead(t) /\ status[act[t]] = "proposed"
    BY <2>2 DEF PushRead, Goto, rowVars, reportVars, outsideVars
  <2>3. CASE ReadBack(t)
    BY <2>3 DEF ReadBack, Goto, rowVars, reportVars, outsideVars
  <2>4. CASE Claim(t) /\ act[t] \notin inFlight
    BY <2>4 DEF Claim, Goto, rowVars, reportVars, outsideVars
  <2>5. CASE Get(t) /\ status[act[t]] = "approved"
    BY <2>5 DEF Get, Goto, rowVars, reportVars, outsideVars
  <2>6. CASE StartRun(t)
    BY <2>6 DEF StartRun, Goto, reportVars, outsideVars
  <2>7. CASE Stamp(t)
    BY <2>7 DEF Stamp, Claimable, Goto, reportVars, outsideVars
  <2>8. CASE Call(t)
    BY <2>8 DEF Call, Goto, rowVars, reportVars
  <2>9. CASE CallFails(t) \/ Receive(t) \/ GiveUp(t)
    BY <2>9 DEF CallFails, Receive, GiveUp, Outcomes, Goto, rowVars,
       reportVars, outsideVars
  <2>10. CASE Record(t) \/ RecordFault(t)
    <3>0. /\ pc'[t] \notin {"call", "await", "record", "auto"}
          /\ \A u \in Task \ {t} : pc'[u] = pc[u]
      BY <2>10, RecordWrites
    <3>1. ASSUME NEW u \in Task, Executing(u)' PROVE Executing(u) /\ u # t
      <4>1. u # t
        BY <3>0, <3>1
      <4>2. pc'[u] = pc[u]
        BY <3>0, <4>1
      <4> QED BY <3>1, <4>1, <4>2
    <3>2. \A u \in Task \ {t} : Executing(u) => act[u] # act[t]
      BY <2>10, RecordWrites
    <3>3. \A b \in Action :
            /\ b # act[t] => status'[b] = status[b]
            /\ status'[b] \in Granted <=> status[b] \in Granted
            /\ status'[b] = "absent" <=> status[b] = "absent"
      BY <2>10, RecordWrites, VerdictIsFinal
    <3>4. ASSUME NEW u \in Task, pc'[u] = "auto" PROVE pc[u] = "auto"
      <4>1. u # t
        BY <3>0, <3>4
      <4> QED BY <3>0, <3>4, <4>1
    <3>5. act' = act /\ UNCHANGED <<sent, tool, human>>
      BY <2>10, RecordWrites
    <3> QED BY <3>1, <3>2, <3>3, <3>4, <3>5
  <2> QED BY <1>2, <2>1, <2>2, <2>3, <2>4, <2>5, <2>6, <2>7, <2>8, <2>9,
      <2>10 DEF Proceeds
<1>3. ASSUME NEW t \in Task, NEW a \in Action, Enters(t, a) PROVE Deciding'
  <2>1. ASSUME NEW tl \in Tool, Submit(t, a, tl) PROVE Deciding'
    BY <2>1 DEF Submit, Goto, reportVars, outsideVars
  <2>2. CASE Approve(t, a)
    BY <2>2 DEF Approve, MayDecide, Serving, Transition, Goto, reportVars,
       outsideVars
  <2>3. CASE Execute(t, a)
    BY <2>3 DEF Execute, Serving, Goto, rowVars, reportVars, outsideVars
  <2> QED BY <1>3, <2>1, <2>2, <2>3 DEF Enters
<1>4. ASSUME NEW a \in Action, SweepFail(a) \/ Connector(a) \/ Deadline(a)
      PROVE  Deciding'
  <2>1. CASE SweepFail(a)
    <3>1. proc = "starting" /\ UNCHANGED <<pc, act, sent, tool, human>>
      BY <2>1 DEF SweepFail, taskVars, outsideVars
    <3>2. \A u \in Task : pc[u] = "idle"
      BY <3>1
    <3>3. \A b \in Action : status'[b] \in Granted <=> status[b] \in Granted
      BY <2>1 DEF SweepFail, Stranded, Transition
    <3> QED BY <3>1, <3>2, <3>3
  <2>2. CASE Connector(a)
    BY <2>2 DEF Connector, rowVars, reportVars, taskVars
  <2>3. CASE Deadline(a)
    BY <2>3 DEF Deadline, reportVars, taskVars, outsideVars
  <2> QED BY <1>4, <2>1, <2>2, <2>3
<1>5. CASE Expire
  BY <1>5 DEF Expire, reportVars, taskVars, outsideVars
<1>6. CASE Lifecycle
  BY <1>6 DEF Lifecycle, Start, SweepReport, Bind, Sigterm, rowVars, reportVars,
                taskVars, outsideVars
<1>7. CASE Stop \/ Crash
  BY <1>7 DEF Stop, Crash, Dies, rowVars, outsideVars
<1>8. CASE UNCHANGED vars
  BY <1>8 DEF vars, rowVars, reportVars, taskVars, outsideVars
<1> QED BY <1>1, <1>2, <1>3, <1>4, <1>5, <1>6, <1>7, <1>8, StepCases

\* What the far side did: a recorded success is a success.
LEMMA AppliedStep ==
  ASSUME Base, Base', Deciding, Applied, [Next]_vars PROVE Applied'
<1> USE DEF Base, TypeOK, Attribution, OneExecutionAtATime, Claiming, Holding,
    Deciding, OutcomeIsTheCallers, Executing, Applied, ExecutedMeansApplied
<1>1. ASSUME NEW t \in Task, Departs(t) PROVE Applied'
  <2>1. pc'[t] # "record"
    BY <1>1 DEF Departs, Away
  <2>2. \A u \in Task \ {t} :
          pc'[u] = pc[u] /\ act'[u] = act[u] /\ outcome'[u] = outcome[u]
    BY <1>1 DEF Departs, Away
  <2>3. \A a \in Action : status'[a] = "executed" => status[a] = "executed"
    BY <1>1 DEF Departs, Transition
  <2>4. wire' = wire
    BY <1>1 DEF Departs
  <2>5. ASSUME NEW u \in Task, pc'[u] = "record", outcome'[u] = "ok"
        PROVE  wire'[act'[u]] = "applied"
    BY <2>1, <2>2, <2>4, <2>5
  <2> QED BY <2>3, <2>4, <2>5
<1>2. ASSUME NEW t \in Task, Proceeds(t) PROVE Applied'
  <2>1. CASE SubmitAuto(t) /\ status[act[t]] = "proposed"
    BY <2>1 DEF SubmitAuto, Transition, Goto, reportVars, outsideVars
  <2>2. CASE PushRead(t) /\ status[act[t]] = "proposed"
    BY <2>2 DEF PushRead, Goto, rowVars, reportVars, outsideVars
  <2>3. CASE ReadBack(t)
    BY <2>3 DEF ReadBack, Goto, rowVars, reportVars, outsideVars
  <2>4. CASE Claim(t) /\ act[t] \notin inFlight
    BY <2>4 DEF Claim, Goto, rowVars, reportVars, outsideVars
  <2>5. CASE Get(t) /\ status[act[t]] = "approved"
    BY <2>5 DEF Get, Goto, rowVars, reportVars, outsideVars
  <2>6. CASE StartRun(t)
    BY <2>6 DEF StartRun, Goto, reportVars, outsideVars
  <2>7. CASE Stamp(t)
    BY <2>7 DEF Stamp, Claimable, Goto, reportVars, outsideVars
  <2>8. CASE Call(t)
    BY <2>8 DEF Call, Goto, rowVars, reportVars
  <2>9. CASE CallFails(t) \/ Receive(t) \/ GiveUp(t)
    <3>1. PICK r \in {"ok", "error"} :
            Outcomes(t, r) /\ (r = "ok" => wire[act[t]] = "applied")
      BY <2>9 DEF CallFails, Receive, GiveUp
    <3>2. /\ pc' = [pc EXCEPT ![t] = "record"]
        /\ outcome' = [outcome EXCEPT ![t] = r]
          /\ UNCHANGED <<act, wire, status>>
      BY <3>1 DEF Outcomes, Goto, rowVars, outsideVars
    <3> QED BY <3>1, <3>2
  <2>10. CASE Record(t) \/ RecordFault(t)
    <3>1. /\ pc'[t] # "record" /\ \A u \in Task \ {t} : pc'[u] = pc[u]
          /\ UNCHANGED <<act, outcome, wire>>
      BY <2>10, RecordWrites
    <3>2. \A b \in Action \ {act[t]} : status'[b] = status[b]
      BY <2>10, RecordWrites
    <3>3. status'[act[t]] = "executed" =>
            status[act[t]] = "executed" \/ outcome[t] = "ok"
      BY <2>10, RecordWrites DEF Verdict
    <3>4. pc[t] = "record"
      BY <2>10, RecordWrites
    <3> QED BY <3>1, <3>2, <3>3, <3>4
  <2> QED BY <1>2, <2>1, <2>2, <2>3, <2>4, <2>5, <2>6, <2>7, <2>8, <2>9,
      <2>10 DEF Proceeds
<1>3. ASSUME NEW t \in Task, NEW a \in Action, Enters(t, a) PROVE Applied'
  <2>1. ASSUME NEW tl \in Tool, Submit(t, a, tl) PROVE Applied'
    BY <2>1 DEF Submit, Goto, reportVars, outsideVars
  <2>2. CASE Approve(t, a)
    BY <2>2 DEF Approve, MayDecide, Serving, Transition, Goto, reportVars,
       outsideVars
  <2>3. CASE Execute(t, a)
    BY <2>3 DEF Execute, Serving, Goto, rowVars, reportVars, outsideVars
  <2> QED BY <1>3, <2>1, <2>2, <2>3 DEF Enters
<1>4. ASSUME NEW a \in Action, SweepFail(a) \/ Connector(a) \/ Deadline(a)
      PROVE  Applied'
  <2>1. CASE SweepFail(a)
    BY <2>1 DEF SweepFail, Stranded, Transition, taskVars, outsideVars
  <2>2. CASE Connector(a)
    BY <2>2 DEF Connector, rowVars, reportVars, taskVars
  <2>3. CASE Deadline(a)
    BY <2>3 DEF Deadline, reportVars, taskVars, outsideVars
  <2> QED BY <1>4, <2>1, <2>2, <2>3
<1>5. CASE Expire
  BY <1>5 DEF Expire, reportVars, taskVars, outsideVars
<1>6. CASE Lifecycle
  BY <1>6 DEF Lifecycle, Start, SweepReport, Bind, Sigterm, rowVars, reportVars,
                taskVars, outsideVars
<1>7. CASE Stop \/ Crash
  BY <1>7 DEF Stop, Crash, Dies, rowVars, outsideVars
<1>8. CASE UNCHANGED vars
  BY <1>8 DEF vars, rowVars, reportVars, taskVars, outsideVars
<1> QED BY <1>1, <1>2, <1>3, <1>4, <1>5, <1>6, <1>7, <1>8, StepCases

\* Which runs are on record: a claimed row has one.
LEMMA TracedStep ==
  ASSUME Base, Base', Traced, [Next]_vars PROVE Traced'
<1> USE DEF Base, TypeOK, Attribution, Claiming, Holding, Traced, Total
<1>1. ASSUME NEW t \in Task, Departs(t) PROVE Traced'
  BY <1>1 DEF Departs, Away, Transition
<1>2. ASSUME NEW t \in Task, Proceeds(t) PROVE Traced'
  <2>1. CASE SubmitAuto(t) /\ status[act[t]] = "proposed"
    BY <2>1 DEF SubmitAuto, Transition, Goto, reportVars, outsideVars
  <2>2. CASE PushRead(t) /\ status[act[t]] = "proposed"
    BY <2>2 DEF PushRead, Goto, rowVars, reportVars, outsideVars
  <2>3. CASE ReadBack(t)
    BY <2>3 DEF ReadBack, Goto, rowVars, reportVars, outsideVars
  <2>4. CASE Claim(t) /\ act[t] \notin inFlight
    BY <2>4 DEF Claim, Goto, rowVars, reportVars, outsideVars
  <2>5. CASE Get(t) /\ status[act[t]] = "approved"
    BY <2>5 DEF Get, Goto, rowVars, reportVars, outsideVars
  <2>6. CASE StartRun(t)
    BY <2>6 DEF StartRun, Goto, reportVars, outsideVars
  <2>7. CASE Stamp(t)
    BY <2>7 DEF Stamp, Claimable, Goto, reportVars, outsideVars
  <2>8. CASE Call(t)
    BY <2>8 DEF Call, Goto, rowVars, reportVars
  <2>9. CASE CallFails(t) \/ Receive(t) \/ GiveUp(t)
    BY <2>9 DEF CallFails, Receive, GiveUp, Outcomes, Goto, rowVars,
       reportVars, outsideVars
  <2>10. CASE Record(t)
    BY <2>10, VerdictIsFinal DEF Record, Transition, Goto, reportVars,
       outsideVars
  <2>11. CASE RecordFault(t)
    BY <2>11, VerdictIsFinal DEF RecordFault, Transition, Goto, reportVars,
       outsideVars
  <2> QED BY <1>2, <2>1, <2>2, <2>3, <2>4, <2>5, <2>6, <2>7, <2>8, <2>9, <2>10,
      <2>11 DEF Proceeds
<1>3. ASSUME NEW t \in Task, NEW a \in Action, Enters(t, a) PROVE Traced'
  <2>1. ASSUME NEW tl \in Tool, Submit(t, a, tl) PROVE Traced'
    BY <2>1 DEF Submit, Goto, reportVars, outsideVars
  <2>2. CASE Approve(t, a)
    BY <2>2 DEF Approve, MayDecide, Serving, Transition, Goto, reportVars,
       outsideVars
  <2>3. CASE Execute(t, a)
    BY <2>3 DEF Execute, Serving, Goto, rowVars, reportVars, outsideVars
  <2> QED BY <1>3, <2>1, <2>2, <2>3 DEF Enters
<1>4. ASSUME NEW a \in Action, SweepFail(a) \/ Connector(a) \/ Deadline(a)
      PROVE  Traced'
  <2>1. CASE SweepFail(a)
    BY <2>1 DEF SweepFail, Stranded, Transition, taskVars, outsideVars
  <2>2. CASE Connector(a)
    BY <2>2 DEF Connector, rowVars, reportVars, taskVars
  <2>3. CASE Deadline(a)
    BY <2>3 DEF Deadline, reportVars, taskVars, outsideVars
  <2> QED BY <1>4, <2>1, <2>2, <2>3
<1>5. CASE Expire
  BY <1>5 DEF Expire, reportVars, taskVars, outsideVars
<1>6. CASE Lifecycle
  BY <1>6 DEF Lifecycle, Start, SweepReport, Bind, Sigterm, rowVars, reportVars,
                taskVars, outsideVars
<1>7. CASE Stop \/ Crash
  BY <1>7 DEF Stop, Crash, Dies, rowVars, outsideVars
<1>8. CASE UNCHANGED vars
  BY <1>8 DEF vars, rowVars, reportVars, taskVars, outsideVars
<1> QED BY <1>1, <1>2, <1>3, <1>4, <1>5, <1>6, <1>7, <1>8, StepCases

-----------------------------------------------------------------------------
(* The theorems                                                             *)

\* The inductive invariant holds of an empty store.
LEMMA InvInit == Init => Inv
<1> SUFFICES ASSUME Init PROVE Inv
  OBVIOUS
<1> USE GateAssumption DEF Init
<1>1. TypeOK
  BY DEF TypeOK, PC, Status, Outcome, Told, Wire
<1>2. Attribution /\ OneExecutionAtATime
  BY DEF Attribution, OneExecutionAtATime, Holding, Claiming
<1>3. Sending
  BY DEF Sending, AtCall, AtMostOneCall
<1>4. Deciding
  BY DEF Deciding, OutcomeIsTheCallers, Executing, Granted
<1>5. Applied /\ Traced
  BY DEF Applied, ExecutedMeansApplied, Traced
<1> QED BY <1>1, <1>2, <1>3, <1>4, <1>5 DEF Inv, Base

\* Every step keeps the inductive invariant.
LEMMA InvStep == Inv /\ [Next]_vars => Inv'
<1> SUFFICES ASSUME Inv, [Next]_vars PROVE Inv'
  OBVIOUS
<1>1. Base'
  BY TypeStep, AttributionStep DEF Inv, Base
<1>2. Sending' /\ Deciding'
  BY <1>1, SendingStep, DecidingStep DEF Inv
<1>3. Applied' /\ Traced'
  BY <1>1, AppliedStep, TracedStep DEF Inv
<1> QED BY <1>1, <1>2, <1>3 DEF Inv

\* The strengthening is an invariant of the gate.
THEOREM Invariance == Spec => []Inv
<1>1. Init => Inv
  BY InvInit
<1>2. Inv /\ [Next]_vars => Inv'
  BY InvStep
<1> QED BY <1>1, <1>2, PTL DEF Spec

\* Every variable keeps its type; in particular a run is never closed twice, so
\* the open runs of a row are never fewer than none.
THEOREM TypeCorrect == Spec => []TypeOK
<1>1. Inv => TypeOK
  BY DEF Inv, Base
<1> QED BY <1>1, Invariance, PTL

\* No interleaving of approvals, double taps, restarts and faults makes the
\* daemon send one action to its connector twice.
THEOREM CalledAtMostOnce == Spec => []AtMostOneCall
<1>1. Inv => AtMostOneCall
  BY DEF Inv, Sending
<1> QED BY <1>1, Invariance, PTL

\* A connector is reached for a row only after a human approved that row, or
\* under a rule that marks its tool auto.
THEOREM CalledByConsent == Spec => []ConsentBeforeCall
<1>1. Inv => ConsentBeforeCall
  BY DEF Inv, Deciding, ConsentBeforeCall, Consent
<1> QED BY <1>1, Invariance, PTL

\* What is waiting, rejected or expired was never sent.
THEOREM RefusalIsSafe == Spec => []RefusedNeverCalled
<1>1. Inv => RefusedNeverCalled
  BY DEF Inv, Base, TypeOK, Deciding, Granted, RefusedNeverCalled
<1> QED BY <1>1, Invariance, PTL

\* The row an executor is calling for stays its own until it records an outcome.
THEOREM CallerKeepsItsRow == Spec => []OutcomeIsTheCallers
<1>1. Inv => OutcomeIsTheCallers
  BY DEF Inv, Deciding
<1> QED BY <1>1, Invariance, PTL

\* An `executed` row was performed by its connector.
THEOREM ExecutedIsTrue == Spec => []ExecutedMeansApplied
<1>1. Inv => ExecutedMeansApplied
  BY DEF Inv, Applied
<1> QED BY <1>1, Invariance, PTL

\* Two tasks are never inside the executor for one row, whoever redrives it.
THEOREM InFlightExcludes == Spec => []OneExecutionAtATime
<1>1. Inv => OneExecutionAtATime
  BY DEF Inv, Base
<1> QED BY <1>1, Invariance, PTL

\* A claimed row has a run that names it, one being called for an open one.
THEOREM ClaimIsOnRecord == Spec => []ClaimLeavesTrace
<1>1. Inv => ClaimLeavesTrace
  BY DEF Inv, Base, Attribution, Claiming, Holding, Traced, Total,
         ClaimLeavesTrace, Executing
<1> QED BY <1>1, Invariance, PTL

-----------------------------------------------------------------------------
(* The gate implements ActionPromise                                        *)

PhaseOf == [a \in Action |-> Phase(a)]

OnlyRow(a) ==
  /\ UNCHANGED sent
  /\ \A b \in Action \ {a} : status'[b] = status[b]

\* A step that writes one row moves the phase of that row alone.
LEMMA RowMoves ==
  ASSUME NEW a \in Action, OnlyRow(a)
  PROVE  PhaseOf' = [PhaseOf EXCEPT ![a] = Phase(a)']
<1>1. \A b \in Action \ {a} : Phase(b)' = Phase(b)
  BY DEF OnlyRow, Phase
<1> QED BY <1>1 DEF PhaseOf

\* An approval is the promise's Grant.
LEMMA RowIsGranted ==
  ASSUME Inv, NEW a \in Action, OnlyRow(a),
         status[a] = "proposed", status'[a] = "approved"
  PROVE  Promise!Grant
<1>1. sent[a] = 0
  BY DEF Inv, Base, TypeOK, Deciding, Granted
<1>2. Phase(a) = "waiting" /\ Phase(a)' = "granted"
  BY <1>1 DEF Phase, OnlyRow
<1> QED BY <1>2, RowMoves DEF PhaseOf, OnlyRow, Promise!Grant, Promise!Move

\* A rejection is its Drop.
LEMMA RowIsDropped ==
  ASSUME NEW a \in Action, OnlyRow(a),
         status[a] = "proposed", status'[a] = "rejected"
  PROVE  Promise!Drop
<1>1. Phase(a) = "waiting" /\ Phase(a)' = "dropped"
  BY DEF Phase
<1>2. {a} \in SUBSET {b \in Action : PhaseOf[b] = "waiting"}
  BY <1>1 DEF PhaseOf
<1>3. PhaseOf' = [b \in Action |-> IF b \in {a} THEN "dropped" ELSE PhaseOf[b]]
  BY <1>1, RowMoves DEF PhaseOf
<1> QED BY <1>2, <1>3 DEF PhaseOf, OnlyRow, Promise!Drop

\* A recorded outcome is its Conclude.
LEMMA RowIsConcluded ==
  ASSUME NEW a \in Action, OnlyRow(a),
         status[a] = "approved", status'[a] \in {"executed", "failed"}
  PROVE  Promise!Conclude
<1>1. Phase(a) \in {"granted", "attempted"} /\ Phase(a)' = "done"
  BY DEF Phase
<1> QED BY <1>1, RowMoves DEF PhaseOf, OnlyRow, Promise!Conclude, Promise!Move

\* A step that writes no row and sends nothing is a stutter of the promise.
LEMMA NothingMoves ==
  ASSUME UNCHANGED <<status, sent>>
  PROVE  UNCHANGED Promise!pvars
<1>1. \A a \in Action : Phase(a)' = Phase(a)
  BY DEF Phase
<1> QED BY <1>1 DEF Promise!pvars

\* The empty store is where the promise starts.
LEMMA PromiseInit == Init => Promise!Init
BY DEF Init, Promise!Init, Phase

\* Every step is a step of the promise or a stutter.
LEMMA PromiseStep ==
  ASSUME Inv, [Next]_vars PROVE [Promise!Next]_(Promise!pvars)
<1> USE DEF Inv, Base, TypeOK, Promise!Next
<1>1. ASSUME NEW t \in Task, Departs(t) PROVE [Promise!Next]_(Promise!pvars)
  <2>1. CASE status' = status
    BY <1>1, <2>1, NothingMoves DEF Departs
  <2>2. ASSUME NEW a \in Action, Transition(a, "proposed", "rejected")
        PROVE  Promise!Drop
    BY <1>1, <2>2, RowIsDropped DEF Departs, Transition, OnlyRow
  <2>3. ASSUME NEW a \in Action, Transition(a, "proposed", "approved")
        PROVE  Promise!Grant
    BY <1>1, <2>3, RowIsGranted DEF Departs, Transition, OnlyRow
  <2> QED BY <1>1, <2>1, <2>2, <2>3 DEF Departs
<1>2. ASSUME NEW t \in Task, Proceeds(t) PROVE [Promise!Next]_(Promise!pvars)
  <2>1. CASE SubmitAuto(t) /\ status[act[t]] = "proposed"
    <3>1. PICK a \in Action : a = act[t]
      BY <2>1 DEF SubmitAuto, Attribution
    <3>2. Promise!Grant
      BY <2>1, <3>1, RowIsGranted DEF SubmitAuto, Transition, outsideVars,
         OnlyRow
    <3> QED BY <3>2
  <2>2. CASE Call(t)
    <3>1. PICK a \in Action : a = act[t]
      BY <2>2 DEF Call, Attribution
    <3>2. status[a] = "approved" /\ sent[a] = 0
      BY <2>2, <3>1 DEF Call, Sending, Deciding, OutcomeIsTheCallers, Executing
    <3>3. status' = status /\ sent' = [sent EXCEPT ![a] = @ + 1]
      BY <2>2, <3>1 DEF Call, rowVars
    <3>4. Phase(a) = "granted" /\ Phase(a)' = "attempted"
      BY <3>2, <3>3 DEF Phase
    <3>5. \A b \in Action \ {a} : Phase(b)' = Phase(b)
      BY <3>3 DEF Phase
    <3>6. PhaseOf' = [PhaseOf EXCEPT ![a] = "attempted"]
      BY <3>4, <3>5 DEF PhaseOf
    <3> QED BY <3>3, <3>4, <3>6 DEF PhaseOf, Promise!Attempt
  <2>3. CASE Record(t) \/ RecordFault(t)
    <3>1. PICK a \in Action : a = act[t]
      BY <2>3 DEF Record, RecordFault, Attribution
    <3>2. OnlyRow(a)
      BY <2>3, <3>1, RecordWrites DEF OnlyRow
    <3>3. CASE status'[a] = status[a]
      <4>1. status' = status
        BY <2>3, <3>2, <3>3 DEF Record, RecordFault, Transition, OnlyRow
      <4> QED BY <3>2, <4>1, NothingMoves DEF OnlyRow
    <3>4. CASE status[a] = "approved" /\ status'[a] = Verdict(t)
      BY <3>2, <3>4, VerdictIsFinal, RowIsConcluded
    <3> QED BY <2>3, <3>1, <3>3, <3>4, RecordWrites
  <2>4. CASE ~(\/ SubmitAuto(t) /\ status[act[t]] = "proposed"
               \/ Call(t) \/ Record(t) \/ RecordFault(t))
    <3>1. UNCHANGED <<status, sent>>
      BY <1>2, <2>4 DEF Proceeds, PushRead, ReadBack, Claim, Get, StartRun,
         Stamp,
         CallFails, Receive, GiveUp, Outcomes, rowVars, outsideVars
    <3> QED BY <3>1, NothingMoves
  <2> QED BY <2>1, <2>2, <2>3, <2>4
<1>3. ASSUME NEW t \in Task, NEW a \in Action, Enters(t, a)
      PROVE  [Promise!Next]_(Promise!pvars)
  <2>1. ASSUME NEW tl \in Tool, Submit(t, a, tl) PROVE Promise!Ask
    <3>1. OnlyRow(a) /\ status[a] = "absent" /\ status'[a] = "proposed"
      BY <2>1 DEF Submit, OnlyRow, outsideVars
    <3>2. Phase(a) = "none" /\ Phase(a)' = "waiting"
      BY <3>1 DEF Phase
    <3> QED BY <3>1, <3>2, RowMoves DEF PhaseOf, OnlyRow, Promise!Ask,
        Promise!Move
  <2>2. CASE Approve(t, a)
    BY <2>2, RowIsGranted DEF Approve, Transition, OnlyRow, outsideVars
  <2>3. CASE Execute(t, a)
    BY <2>3, NothingMoves DEF Execute, rowVars, outsideVars
  <2> QED BY <1>3, <2>1, <2>2, <2>3 DEF Enters
<1>4. ASSUME NEW a \in Action, SweepFail(a) \/ Connector(a) \/ Deadline(a)
      PROVE  [Promise!Next]_(Promise!pvars)
  <2>1. CASE SweepFail(a) /\ Stranded(a)
    BY <2>1, RowIsConcluded DEF SweepFail, Transition, OnlyRow, outsideVars
  <2>2. CASE SweepFail(a) /\ ~Stranded(a)
    BY <2>2, NothingMoves DEF SweepFail, outsideVars
  <2>3. CASE Connector(a) \/ Deadline(a)
    BY <2>3, NothingMoves DEF Connector, Deadline, rowVars, outsideVars
  <2> QED BY <1>4, <2>1, <2>2, <2>3
<1>5. CASE Expire
  <2> DEFINE stale == {a \in due : status[a] = "proposed"}
  <2>1.
      /\ status' = [a \in Action |-> IF a \in stale THEN "expired" ELSE status[a]]
        /\ UNCHANGED sent
    BY <1>5 DEF Expire, outsideVars
  <2>2. stale \in SUBSET {a \in Action : PhaseOf[a] = "waiting"}
    BY DEF PhaseOf, Phase
  <2>3. \A a \in Action :
          Phase(a)' = IF a \in stale THEN "dropped" ELSE Phase(a)
    BY <2>1 DEF Phase
  <2>4. PhaseOf' = [a \in Action |-> IF a \in stale THEN "dropped" ELSE PhaseOf[a]]
    BY <2>3 DEF PhaseOf
  <2>5. Promise!Drop
    BY <2>1, <2>2, <2>4 DEF PhaseOf, Promise!Drop
  <2> QED BY <2>5
<1>6. CASE Lifecycle \/ Stop \/ Crash \/ UNCHANGED vars
  <2>1. UNCHANGED <<status, sent>>
    BY <1>6 DEF Lifecycle, Start, SweepReport, Bind, Sigterm, Stop, Crash,
       Dies, vars,
       rowVars, outsideVars
  <2> QED BY <2>1, NothingMoves
<1> QED BY <1>1, <1>2, <1>3, <1>4, <1>5, <1>6, StepCases

\* The gate implements the promise it makes its owner: decided once, attempted at
\* most once and only when granted, never revisited.
THEOREM PromiseKept == Spec => KeepsPromise
<1>1. Init => Promise!Init
  BY PromiseInit
<1>2. Inv /\ [Next]_vars => [Promise!Next]_(Promise!pvars)
  BY PromiseStep
<1> QED BY <1>1, <1>2, Invariance, PTL DEF Spec, KeepsPromise, Promise!Spec
=============================================================================
