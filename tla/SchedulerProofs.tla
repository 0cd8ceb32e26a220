---------------------------- MODULE SchedulerProofs ----------------------------
(***************************************************************************)
(* What the scheduler guarantees for any number of jobs and of owner's     *)
(* requests, any threshold, interval and cooldown, and any number of       *)
(* crashes, signals, faults and resets.                                    *)
(*                                                                         *)
(* Each invariant below relates what one actor holds at each point to what *)
(* another reads: RunsInv the overlap guard, TripInv and WhyInv the        *)
(* breaker, DrainInv the handles, OwnerInv the pause in memory and in the  *)
(* store.  A proof has one step per action that the invariant can feel.    *)
(***************************************************************************)
EXTENDS Scheduler, TLAPS

-----------------------------------------------------------------------------
(* The inductive invariants                                                 *)

\* Whoever holds the flag is one: the tick before the spawn, the future after.
RunInv(j) ==
  /\ alive[j] <= 1
  /\ alive[j] = 1 <=> pc[j] # "idle"
  /\ alive[j] = 1 \/ cur = j => running[j]
  /\ cur = j => alive[j] = 0

RunsInv ==
  /\ \A j \in Job : RunInv(j)
  /\ tpc \in {"look", "due"} <=> cur # NoJob
  /\ rpc = "none" <=> rjob = NoJob
  /\ proc \in {"down", "starting"} => tpc = "gone"

Base == TypeOK /\ RunsInv

\* What an invocation counted is no more than what happened.
TripInv ==
  \A j \in Job :
    /\ failures[j] <= streak[j]
    /\ pc[j] \in {"set_reason", "look", "trip"} => seen[j] <= streak[j]
    /\ pc[j] = "trip" => seen[j] = Threshold

\* A message that a reset cleared is accounted for before the breaker trips.
WhyInv ==
  /\ TrippedSaysWhy
  /\ \A j \in Job :
       /\ pc[j] \in Recording => reason[j] \/ j \in mixed
       /\ rjob = j /\ rpc # "tripped" /\ tripped[j] => j \in mixed

\* A handle is the tick's, the scheduler's or the drain's.
DrainInv ==
  /\ proc \in {"down", "starting", "up"} =>
       \A j \in Job : alive[j] = 1 => j \in spawned \cup inFlight
  /\ proc = "stopping" => owed \subseteq inFlight
  /\ proc = "draining" => owed \subseteq waiting
  /\ DrainWaits

\* An answered wish is recorded and nobody is changing it; one that is not is in
\* memory; and a daemon that starts has not been told anything else.
OwnerInv ==
  /\ KeptWord
  /\ word # "none" => durable = (word = "pause") /\ \A r \in Request : asked[r] = "none"
  /\ ~clash => \A r, q \in Request : asked[r] # "none" /\ asked[q] # "none" => r = q
  /\ proc = "up" /\ ~clash =>
       \A r \in Request : asked[r] # "none" => paused = (asked[r] = "pause")
  /\ proc = "down" => \A r \in Request : asked[r] = "none"
  /\ proc = "starting" => clash \/ \A r \in Request : asked[r] = "none"
  /\ proc \in {"down", "starting"} /\ word # "none" => ~paused
  /\ restore # "none" => proc = "starting"
  /\ restore # "none" /\ word # "none" => restore = word

-----------------------------------------------------------------------------
(* Types and the overlap guard                                              *)

\* Every variable keeps its type, and the flag of a job is held by one actor, the
\* tick that claimed it or the invocation it spawned: a job never overlaps itself.
THEOREM NoOverlapHolds == Spec => []Base /\ []NoOverlap
<1>1. ASSUME Base, NEW j \in Job, ~running[j] PROVE alive[j] = 0
  <2>1. alive[j] \in Nat  BY <1>1 DEF Base, TypeOK
  <2>2. RunInv(j)  BY <1>1 DEF Base, RunsInv
  <2> QED  BY <1>1, <2>1, <2>2 DEF RunInv
<1> USE SchedulerAssumption
        DEF Base, TypeOK, RunsInv, RunInv, PC, ResetPC, Wish, Least, Most, Longest, Never,
            breakerVars, runVars, tickVars, drainVars, pauseVars, resetVars, storyVars,
            tickFrame, resetFrame, ownerFrame, lifeFrame, Trouble, To
<1>2. Init => Base
  <2> SUFFICES ASSUME Init PROVE Base  OBVIOUS
  <2>1. Longest \in Nat /\ Never \in Nat /\ Threshold \in Nat  OBVIOUS
  <2>2. RunsInv  BY DEF Init, No, Zero
  <2>3. /\ running \in [Job -> BOOLEAN] /\ tripped \in [Job -> BOOLEAN]
        /\ reason \in [Job -> BOOLEAN] /\ alive \in [Job -> Nat]
        /\ failures \in [Job -> 0..Threshold] /\ seen \in [Job -> 0..Threshold]
        /\ streak \in [Job -> 0..Threshold] /\ age \in [Job -> 0..Repush]
    BY <2>1 DEF Init, No, Zero
  <2>4. /\ cooldown \in [Job -> Cooldown..MaxCooldown] /\ since \in [Job -> 0..Longest]
        /\ pushed \in [Job -> 0..Never] /\ pc \in [Job -> PC]
        /\ asked \in [Request -> Wish]
    BY <2>1 DEF Init
  <2>5. /\ todo \subseteq Job /\ spawned \subseteq Job /\ inFlight \subseteq Job
        /\ waiting \subseteq Job /\ mixed \subseteq Job /\ fresh \subseteq Job
        /\ alerted \subseteq Job /\ owed \subseteq Job
    BY DEF Init
  <2>6. /\ cur \in Job \cup {NoJob} /\ rjob \in Job \cup {NoJob} /\ rpc \in ResetPC
        /\ tpc = "gone" /\ proc = "down" /\ restore \in Wish /\ word \in Wish
    BY DEF Init
  <2>7. /\ view \in BOOLEAN /\ paused \in BOOLEAN /\ durable \in BOOLEAN
        /\ drained \in BOOLEAN /\ clash \in BOOLEAN
    BY DEF Init
  <2>8. trouble \in 0..MaxTrouble  BY DEF Init
  <2>9. TypeOK  BY <2>3, <2>4, <2>5, <2>6, <2>7, <2>8
  <2> QED  BY <2>2, <2>9
<1>3. Base /\ [Next]_vars => Base'
  <2> SUFFICES ASSUME Base, [Next]_vars PROVE Base'  OBVIOUS
  <2>1. CASE Tick  BY <2>1 DEF Tick
  <2>2. ASSUME NEW j \in Job, Claim(j) PROVE Base'
    <3>1. CASE running[j]  BY <2>2, <3>1 DEF Claim
    <3>2. CASE ~running[j]
      <4>1. running' = [running EXCEPT ![j] = TRUE]  BY <2>2, <3>2 DEF Claim
      <4>2. running' \in [Job -> BOOLEAN]  BY <4>1
      <4>3. alive[j] = 0  BY <1>1, <3>2
      <4>4. TypeOK'  BY <2>2, <3>2, <4>2, <4>3 DEF Claim
      <4>5. RunsInv'  BY <2>2, <3>2, <4>2, <4>3 DEF Claim
      <4> QED  BY <4>4, <4>5
    <3> QED  BY <3>1, <3>2
  <2>3. CASE Look  BY <2>3 DEF Look
  <2>4. CASE Spawn
    <3>1. cur \in Job /\ alive[cur] = 0 /\ running[cur]  BY <2>4 DEF Spawn
    <3>2. since' \in [Job -> 0..Longest]  BY <2>4 DEF Spawn
    <3>3. /\ alive' \in [Job -> Nat] /\ pc' \in [Job -> PC] /\ age' \in [Job -> 0..Repush]
          /\ spawned' \subseteq Job
      BY <2>4, <3>1 DEF Spawn
    <3>4. /\ tpc' = "claim" /\ cur' = NoJob /\ view' \in BOOLEAN /\ fresh' \subseteq Job
          /\ UNCHANGED <<running, seen, todo, inFlight, streak, mixed, alerted, tickFrame>>
      BY <2>4 DEF Spawn
    <3>5. TypeOK'  BY <3>2, <3>3, <3>4
    <3>6. RunsInv'  BY <2>4, <3>1 DEF Spawn
    <3> QED  BY <3>5, <3>6
  <2>5. CASE NotDue
    <3>1. cur \in Job /\ alive[cur] = 0  BY <2>5 DEF NotDue
    <3>2. running' \in [Job -> BOOLEAN]  BY <2>5 DEF NotDue
    <3>3. /\ tpc' = "claim" /\ cur' = NoJob /\ view' \in BOOLEAN
          /\ UNCHANGED <<alive, pc, seen, age, since, todo, spawned, inFlight, storyVars,
                         tickFrame>>
      BY <2>5 DEF NotDue
    <3>4. TypeOK'  BY <3>2, <3>3
    <3>5. RunsInv'  BY <2>5, <3>1 DEF NotDue
    <3> QED  BY <3>4, <3>5
  <2>6. CASE Keep \/ TickAborted  BY <2>6 DEF Keep, TickAborted
  <2>7. ASSUME NEW j \in Job, Recovers(j) PROVE Base'
    <3>1. CASE Succeed(j)  BY <3>1 DEF Succeed
    <3>2. CASE ClearReason(j)  BY <3>2 DEF ClearReason
    <3>3. CASE ClearCooldown(j)  BY <3>3 DEF ClearCooldown
    <3>4. CASE Close(j)  BY <3>4 DEF Close, Closes
    <3>5. CASE ClearPushed(j)  BY <3>5 DEF ClearPushed
    <3> QED  BY <2>7, <3>1, <3>2, <3>3, <3>4, <3>5 DEF Recovers
  <2>8. ASSUME NEW j \in Job, Breaks(j) PROVE Base'
    <3>1. CASE Fail(j)  BY <3>1 DEF Fail
    <3>2. CASE SetReason(j)
      <4>1. TypeOK'  BY <3>2 DEF SetReason
      <4>2. RunsInv'  BY <3>2 DEF SetReason
      <4> QED  BY <4>1, <4>2
    <3>3. CASE Judge(j)
      <4>1. TypeOK'  BY <3>3 DEF Judge
      <4>2. RunsInv'  BY <3>3 DEF Judge
      <4> QED  BY <4>1, <4>2
    <3>4. CASE BackOff(j)
      <4>1. cooldown' \in [Job -> Cooldown..MaxCooldown]  BY <3>4 DEF BackOff
      <4>2. TypeOK'  BY <3>4, <4>1 DEF BackOff
      <4>3. RunsInv'  BY <3>4 DEF BackOff
      <4> QED  BY <4>2, <4>3
    <3>5. CASE Trip(j)  BY <3>5 DEF Trip
    <3>6. CASE Suppress(j)  BY <3>6 DEF Suppress
    <3>7. CASE Push(j)  BY <3>7 DEF Push
    <3>8. CASE Stamp(j)  BY <3>8 DEF Stamp
    <3> QED  BY <2>8, <3>1, <3>2, <3>3, <3>4, <3>5, <3>6, <3>7, <3>8 DEF Breaks
  <2>9. ASSUME NEW j \in Job, End(j) PROVE Base'  BY <2>9 DEF End
  <2>10. ASSUME NEW j \in Job, ResumeJob(j) PROVE Base'  BY <2>10 DEF ResumeJob
  <2>11. CASE Reset
    <3>1. rjob \in Job  BY <2>11 DEF Reset
    <3>2. since' \in [Job -> 0..Longest] /\ pushed' \in [Job -> 0..Never]
      BY <2>11, <3>1 DEF Reset
    <3>3. rpc' \in ResetPC /\ rjob' \in Job \cup {NoJob} /\ (rpc' = "none" <=> rjob' = NoJob)
      BY <2>11, <3>1 DEF Reset, ThenClear
    <3>4. /\ tripped' \in [Job -> BOOLEAN]
          /\ failures' \in [Job -> 0..Threshold]
          /\ reason' \in [Job -> BOOLEAN]
          /\ cooldown' \in [Job -> Cooldown..MaxCooldown]
      <4>1. tripped' \in [Job -> BOOLEAN]
        <5>1. tripped' = tripped \/ tripped' = [tripped EXCEPT ![rjob] = FALSE]
          BY <2>11, Zenon DEF Reset, Closes
        <5>2. CASE tripped' = tripped  BY <5>2
        <5>3. CASE tripped' = [tripped EXCEPT ![rjob] = FALSE]  BY <3>1, <5>3
        <5> QED  BY <5>1, <5>2, <5>3
      <4>2. reason' \in [Job -> BOOLEAN]
        <5>1. reason' = reason \/ reason' = [reason EXCEPT ![rjob] = FALSE]
          BY <2>11, Zenon DEF Reset
        <5>2. CASE reason' = reason  BY <5>2
        <5>3. CASE reason' = [reason EXCEPT ![rjob] = FALSE]  BY <3>1, <5>3
        <5> QED  BY <5>1, <5>2, <5>3
      <4>3. failures' \in [Job -> 0..Threshold]  BY <2>11, <3>1 DEF Reset
      <4>4. cooldown' \in [Job -> Cooldown..MaxCooldown]  BY <2>11, <3>1 DEF Reset
      <4> QED  BY <4>1, <4>2, <4>3, <4>4
    <3>5. mixed' \subseteq Job /\ fresh' \subseteq Job /\ alerted' \subseteq Job
      BY <2>11, <3>1 DEF Reset, ThenClear, Closes
    <3>6. UNCHANGED resetFrame /\ UNCHANGED trouble  BY <2>11 DEF Reset, ThenClear
    <3>7. TypeOK'  BY <3>2, <3>3, <3>4, <3>5, <3>6
    <3>8. RunsInv'  BY <2>11, <3>3 DEF Reset, ThenClear
    <3> QED  BY <3>7, <3>8
  <2>12. CASE Elapse  BY <2>12 DEF Elapse
  <2>13. ASSUME NEW r \in Request, Ask(r, "pause") \/ Ask(r, "resume") PROVE Base'
    <3>1. paused' \in BOOLEAN /\ clash' \in BOOLEAN  BY <2>13, Zenon DEF Ask
    <3>2. TypeOK'  BY <2>13, <3>1 DEF Ask
    <3>3. RunsInv'  BY <2>13 DEF Ask
    <3> QED  BY <3>2, <3>3
  <2>14. ASSUME NEW r \in Request, Record(r) \/ RecordFault(r) PROVE Base'
    <3>1. durable' \in BOOLEAN  BY <2>14, Zenon DEF Record, RecordFault
    <3>2. TypeOK'  BY <2>14, <3>1 DEF Record, RecordFault
    <3>3. RunsInv'  BY <2>14 DEF Record, RecordFault
    <3> QED  BY <3>2, <3>3
  <2>15. CASE Boot \/ RestoreRead  BY <2>15 DEF Boot, RestoreRead
  <2>16. CASE Restore
    <3>1. paused' \in BOOLEAN  BY <2>16, Zenon DEF Restore
    <3>2. TypeOK'  BY <2>16, <3>1 DEF Restore
    <3>3. cur = NoJob  BY <2>16 DEF Restore
    <3>4. RunsInv'  BY <2>16, <3>3 DEF Restore
    <3> QED  BY <3>2, <3>4
  <2>17. CASE Sigterm \/ Drain
    <3>1. /\ paused' \in BOOLEAN /\ owed' \subseteq Job
          /\ waiting' \subseteq Job /\ inFlight' \subseteq Job
      BY <2>17 DEF Sigterm, Drain
    <3>2. trouble' \in 0..MaxTrouble /\ proc' \in {"stopping", "draining"}
      BY <2>17 DEF Sigterm, Drain
    <3>3. UNCHANGED <<durable, asked, restore, word, clash, drained, tickVars, breakerVars,
                      since, runVars, resetVars, storyVars>>
      BY <2>17 DEF Sigterm, Drain
    <3>4. TypeOK'  BY <3>1, <3>2, <3>3
    <3>5. RunsInv'  BY <2>17 DEF Sigterm, Drain
    <3> QED  BY <3>4, <3>5
  <2>18. CASE Drained
    <3>1. drained' \in BOOLEAN  BY <2>18, Zenon DEF Drained
    <3> QED  BY <2>18, <3>1 DEF Drained
  <2>19. CASE Exit \/ Crash
    <3>1. Dies /\ trouble' \in 0..MaxTrouble  BY <2>19 DEF Exit, Crash
    <3>2. RunsInv'  BY <3>1 DEF Dies, No, Zero
    <3>3. Longest \in Nat /\ Never \in Nat /\ Threshold \in Nat  OBVIOUS
    <3>4. /\ running' \in [Job -> BOOLEAN] /\ tripped' \in [Job -> BOOLEAN]
          /\ reason' \in [Job -> BOOLEAN] /\ alive' \in [Job -> Nat]
          /\ failures' \in [Job -> 0..Threshold] /\ seen' \in [Job -> 0..Threshold]
          /\ streak' \in [Job -> 0..Threshold] /\ age' \in [Job -> 0..Repush]
      BY <3>1, <3>3 DEF Dies, No, Zero
    <3>5. /\ cooldown' \in [Job -> Cooldown..MaxCooldown] /\ since' \in [Job -> 0..Longest]
          /\ pushed' \in [Job -> 0..Never] /\ pc' \in [Job -> PC]
          /\ asked' \in [Request -> Wish]
      BY <3>1, <3>3 DEF Dies
    <3>6. TypeOK'  BY <3>1, <3>4, <3>5 DEF Dies
    <3> QED  BY <3>2, <3>6
  <2>20. CASE UNCHANGED vars  BY <2>20 DEF vars
  <2> QED
    BY <2>1, <2>2, <2>3, <2>4, <2>5, <2>6, <2>7, <2>8, <2>9, <2>10, <2>11, <2>12, <2>13,
       <2>14, <2>15, <2>16, <2>17, <2>18, <2>19, <2>20 DEF Next, TickStep, RunStep, Main
<1>4. Base => NoOverlap  BY DEF NoOverlap
<1>5. QED  BY <1>2, <1>3, <1>4, PTL DEF Spec

-----------------------------------------------------------------------------
(* The breaker                                                              *)

Earned == \A j \in Job : ~tripped[j] /\ tripped'[j] => streak[j] = Threshold

\* A breaker opens after Threshold failures without a success between them, and
\* while it is open it says why: whatever a reset clears meanwhile.
THEOREM BreakerHolds == Spec => TripIsEarned /\ []TrippedSaysWhy
<1> DEFINE Inv == TripInv /\ WhyInv
<1> USE SchedulerAssumption
        DEF TripInv, WhyInv, TrippedSaysWhy, Earned, Recording, Least,
            breakerVars, runVars, tickVars, drainVars, pauseVars, resetVars, storyVars,
            tickFrame, resetFrame, ownerFrame, lifeFrame, To
<1>1. Init => Inv  BY DEF Init, No, Zero
<1>2. Base /\ Inv /\ [Next]_vars => Inv' /\ Earned
  <2> SUFFICES ASSUME Base, Inv, [Next]_vars PROVE Inv' /\ Earned  OBVIOUS
  <2> USE DEF Base
  <2> DEFINE told == <<tripped, failures, reason, pc, seen, streak, mixed, resetVars>>
  <2>1. ASSUME UNCHANGED told PROVE Inv' /\ Earned  BY <2>1
  <2>2. CASE Tick \/ (\E j \in Job : Claim(j)) \/ Look \/ NotDue \/ Keep \/ TickAborted
    <3> UNCHANGED told  BY <2>2 DEF Tick, Claim, Look, NotDue, Keep, TickAborted
    <3> QED  BY <2>1
  <2>3. CASE Spawn  BY <2>3 DEF Spawn, TypeOK, RunsInv, RunInv
  <2>4. ASSUME NEW j \in Job, Recovers(j) PROVE Inv' /\ Earned
    <3>1. CASE Succeed(j)  BY <3>1 DEF Succeed, TypeOK
    <3>2. CASE ClearReason(j)  BY <3>2 DEF ClearReason, TypeOK
    <3>3. CASE ClearCooldown(j)  BY <3>3 DEF ClearCooldown, TypeOK
    <3>4. CASE Close(j)  BY <3>4 DEF Close, Closes, TypeOK
    <3>5. CASE ClearPushed(j)  BY <3>5 DEF ClearPushed, TypeOK
    <3> QED  BY <2>4, <3>1, <3>2, <3>3, <3>4, <3>5 DEF Recovers
  <2>5. ASSUME NEW j \in Job, Breaks(j) PROVE Inv' /\ Earned
    <3>1. CASE Fail(j)  BY <3>1 DEF Fail, TypeOK
    <3>2. CASE SetReason(j)  BY <3>2 DEF SetReason, TypeOK
    <3>3. CASE Judge(j)  BY <3>3 DEF Judge, TypeOK
    <3>4. CASE BackOff(j)  BY <3>4 DEF BackOff, TypeOK
    <3>5. CASE Trip(j)  BY <3>5 DEF Trip, TypeOK
    <3>6. CASE Suppress(j) \/ Push(j) \/ Stamp(j)
      BY <3>6 DEF Suppress, Push, Stamp, TypeOK
    <3> QED  BY <2>5, <3>1, <3>2, <3>3, <3>4, <3>5, <3>6 DEF Breaks
  <2>6. ASSUME NEW j \in Job, End(j) PROVE Inv' /\ Earned  BY <2>6 DEF End, TypeOK
  <2>7. ASSUME NEW j \in Job, ResumeJob(j) PROVE Inv' /\ Earned
    BY <2>7 DEF ResumeJob, TypeOK, RunsInv
  <2>8. CASE Reset
    <3>1. rjob \in Job  BY <2>8 DEF Reset, TypeOK, RunsInv
    <3>2. Inv'  BY <2>8, <3>1 DEF Reset, ThenClear, Closes, TypeOK
    <3>3. Earned  BY <2>8, <3>1 DEF Reset, ThenClear, Closes, TypeOK
    <3> QED  BY <3>2, <3>3
  <2>9. ASSUME NEW r \in Request,
               Ask(r, "pause") \/ Ask(r, "resume") \/ Record(r) \/ RecordFault(r)
        PROVE UNCHANGED told
    BY <2>9 DEF Ask, Record, RecordFault
  <2>10. CASE Boot \/ RestoreRead \/ Restore \/ Drain \/ Drained \/ Sigterm \/ Elapse
    <3> UNCHANGED told  BY <2>10 DEF Boot, RestoreRead, Restore, Drain, Drained, Sigterm, Elapse
    <3> QED  BY <2>1
  <2>11. CASE Exit \/ Crash  BY <2>11 DEF Exit, Crash, Dies, No, Zero
  <2>12. CASE UNCHANGED vars
    <3> UNCHANGED told  BY <2>12 DEF vars
    <3> QED  BY <2>1
  <2> QED
    BY <2>1, <2>2, <2>3, <2>4, <2>5, <2>6, <2>7, <2>8, <2>9, <2>10, <2>11, <2>12
    DEF Next, TickStep, RunStep, Main
<1>3. Earned => [Earned]_vars  OBVIOUS
<1>4. QED
  <2>1. Spec => [](Base /\ Inv) /\ [][Earned]_vars
    BY <1>1, <1>2, NoOverlapHolds, PTL DEF Spec
  <2> QED  BY <2>1, PTL DEF TripIsEarned, WhyInv

-----------------------------------------------------------------------------
(* The drain                                                                *)

\* A drain that reports success has waited for every job that was in flight when
\* the daemon was told to stop, those of a tick then still spawning left out.
THEOREM DrainWaitsHolds == Spec => []DrainWaits
<1> USE DEF DrainInv, DrainWaits,
            breakerVars, runVars, tickVars, drainVars, pauseVars, resetVars, storyVars,
            tickFrame, resetFrame, ownerFrame, lifeFrame, To
<1>1. Init => DrainInv  BY DEF Init, Zero
<1>2. Base /\ DrainInv /\ [Next]_vars => DrainInv'
  <2> SUFFICES ASSUME Base, DrainInv, [Next]_vars PROVE DrainInv'  OBVIOUS
  <2> USE DEF Base
  <2> DEFINE held == <<alive, spawned, inFlight, proc, drainVars>>
  <2>1. ASSUME UNCHANGED held PROVE DrainInv'  BY <2>1
  <2>2. CASE Tick \/ (\E j \in Job : Claim(j)) \/ Look \/ NotDue \/ TickAborted \/ Elapse
    <3> UNCHANGED held  BY <2>2 DEF Tick, Claim, Look, NotDue, TickAborted, Elapse
    <3> QED  BY <2>1
  <2>3. CASE Spawn  BY <2>3 DEF Spawn, TypeOK
  <2>4. CASE Keep  BY <2>4 DEF Keep
  <2>5. ASSUME NEW j \in Job, Recovers(j) \/ Breaks(j) PROVE UNCHANGED held
    <3>1. CASE Recovers(j)
      BY <3>1 DEF Recovers, Succeed, ClearReason, ClearCooldown, Close, ClearPushed
    <3>2. CASE Breaks(j)
      BY <3>2 DEF Breaks, Fail, SetReason, Judge, BackOff, Trip, Suppress, Push, Stamp
    <3> QED  BY <2>5, <3>1, <3>2
  <2>6. ASSUME NEW j \in Job, End(j) PROVE DrainInv'
    <3>1. alive[j] = 1  BY <2>6 DEF End, RunsInv, RunInv
    <3>2. alive' = [alive EXCEPT ![j] = 0]  BY <2>6, <3>1 DEF End
    <3> QED  BY <2>6, <3>2 DEF End, TypeOK
  <2>7. ASSUME NEW j \in Job, ResumeJob(j) PROVE UNCHANGED held  BY <2>7 DEF ResumeJob
  <2>8. CASE Reset
    <3> UNCHANGED held  BY <2>8 DEF Reset, ThenClear
    <3> QED  BY <2>1
  <2>9. ASSUME NEW r \in Request,
               Ask(r, "pause") \/ Ask(r, "resume") \/ Record(r) \/ RecordFault(r)
        PROVE UNCHANGED held
    BY <2>9 DEF Ask, Record, RecordFault
  <2>10. CASE Boot \/ RestoreRead \/ Restore  BY <2>10 DEF Boot, RestoreRead, Restore
  <2>11. CASE Sigterm  BY <2>11 DEF Sigterm, TypeOK, RunsInv, RunInv
  <2>12. CASE Drain \/ Drained  BY <2>12 DEF Drain, Drained
  <2>13. CASE Exit \/ Crash  BY <2>13 DEF Exit, Crash, Dies, Zero
  <2>14. CASE UNCHANGED vars
    <3> UNCHANGED held  BY <2>14 DEF vars
    <3> QED  BY <2>1
  <2> QED
    BY <2>1, <2>2, <2>3, <2>4, <2>5, <2>6, <2>7, <2>8, <2>9, <2>10, <2>11, <2>12, <2>13,
       <2>14
    DEF Next, TickStep, RunStep, Main
<1>3. DrainInv => DrainWaits  OBVIOUS
<1>4. QED  BY <1>1, <1>2, <1>3, NoOverlapHolds, PTL DEF Spec

-----------------------------------------------------------------------------
(* The owner's pause                                                        *)

\* The owner's last answered wish holds whenever the daemon is up, through crashes
\* and clean shutdowns.
THEOREM KeptWordHolds == Spec => []KeptWord
<1> USE DEF OwnerInv, KeptWord, Wish,
            breakerVars, runVars, tickVars, drainVars, pauseVars, resetVars, storyVars,
            tickFrame, resetFrame, ownerFrame, lifeFrame, To
<1>1. Init => OwnerInv  BY DEF Init
<1>2. Base /\ OwnerInv /\ [Next]_vars => OwnerInv'
  <2> SUFFICES ASSUME TypeOK, OwnerInv, [Next]_vars PROVE OwnerInv'  BY DEF Base
  <2> DEFINE owner == <<pauseVars, proc>>
  <2>1. ASSUME UNCHANGED owner PROVE OwnerInv'  BY <2>1
  <2>2. CASE TickStep \/ TickAborted \/ Elapse \/ Reset
    <3>1. ASSUME NEW j \in Job, Claim(j) PROVE UNCHANGED owner  BY <3>1 DEF Claim
    <3>2. UNCHANGED owner
      BY <2>2, <3>1
      DEF TickStep, Tick, Look, Spawn, NotDue, Keep, TickAborted, Elapse, Reset, ThenClear
    <3> QED  BY <2>1, <3>2
  <2>3. ASSUME NEW j \in Job, RunStep(j) \/ ResumeJob(j) PROVE UNCHANGED owner
    <3>1. CASE Recovers(j)
      BY <3>1 DEF Recovers, Succeed, ClearReason, ClearCooldown, Close, ClearPushed
    <3>2. CASE Breaks(j)
      BY <3>2 DEF Breaks, Fail, SetReason, Judge, BackOff, Trip, Suppress, Push, Stamp
    <3>3. CASE End(j) \/ ResumeJob(j)  BY <3>3 DEF End, ResumeJob
    <3> QED  BY <2>3, <3>1, <3>2, <3>3 DEF RunStep
  <2>4. ASSUME NEW r \in Request, NEW wish \in {"pause", "resume"}, Ask(r, wish)
        PROVE OwnerInv'
    <3>1. UNCHANGED <<durable, restore, proc>> /\ word' = "none"  BY <2>4 DEF Ask
    <3>2. asked[r] = "none" /\ asked' = [asked EXCEPT ![r] = wish]  BY <2>4 DEF Ask
    <3>3. paused' = (wish = "pause")  BY <2>4 DEF Ask
    <3>4. proc # "down"  BY <2>4 DEF Ask, Serving
    <3>5. ~clash' => proc # "starting" /\ \A q \in Request : asked[q] = "none"
      BY <2>4 DEF Ask, Pending
    <3> QED  BY <2>4, <3>1, <3>2, <3>3, <3>4, <3>5 DEF TypeOK
  <2>5. ASSUME NEW r \in Request, Record(r) PROVE OwnerInv'
    BY <2>5 DEF Record, TypeOK, Serving
  <2>6. ASSUME NEW r \in Request, RecordFault(r) PROVE OwnerInv'
    BY <2>6 DEF RecordFault, TypeOK, Serving
  <2>7. CASE Boot  BY <2>7 DEF Boot
  <2>8. CASE RestoreRead  BY <2>8 DEF RestoreRead, TypeOK
  <2>9. CASE Restore  BY <2>9 DEF Restore, TypeOK
  <2>10. CASE Sigterm \/ Drain \/ Drained  BY <2>10 DEF Sigterm, Drain, Drained
  <2>11. CASE Exit \/ Crash  BY <2>11 DEF Exit, Crash, Dies
  <2>12. CASE UNCHANGED vars  BY <2>1, <2>12 DEF vars
  <2> QED
    BY <2>1, <2>2, <2>3, <2>4, <2>5, <2>6, <2>7, <2>8, <2>9, <2>10, <2>11, <2>12 DEF Next, Main
<1>3. OwnerInv => KeptWord  OBVIOUS
<1> HIDE DEF OwnerInv, KeptWord
<1>4. QED  BY <1>1, <1>2, <1>3, NoOverlapHolds, PTL DEF Spec

=============================================================================
