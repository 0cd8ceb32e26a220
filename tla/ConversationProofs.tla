-------------------------- MODULE ConversationProofs --------------------------
(***************************************************************************)
(* What the conversation guarantees for any number of messages, on either  *)
(* surface, and any number of crashes, signals and faults.                 *)
(*                                                                         *)
(* The inductive invariant has one part per actor: TurnInv says what a     *)
(* turn may rely on at each point of say(), LoopInv how the two marks, the *)
(* batch and Telegram's cursor stand to each other.  A step of one turn    *)
(* is looked at twice: once for the turn itself, and once, through the     *)
(* relation Steps, for every other turn.  LossInv, on top of it, pays for  *)
(* each message the claim lost: with the trouble that lost it, or with the *)
(* signal that is about to.                                                *)
(***************************************************************************)
EXTENDS Conversation, SequenceTheorems, FiniteSetTheorems, TLAPS

-----------------------------------------------------------------------------
(* The inductive invariant                                                  *)

Asked(t) == Row("user", t) \in Rows
Answered(t) == Row("assistant", t) \in Rows
AtEnd(t) == thread # <<>> /\ thread[Len(thread)] = Row("user", t)

\* A turn's session comes after "bill" and its row is open in between.
Unbilled == {"unsaid", "queued", "resume", "bill"}

TurnInv(t) ==
  /\ pc[t] \in InTurn => holder = t /\ Asked(t) /\ AtEnd(t)
  /\ pc[t] \in {"unsaid", "queued"} => ~Asked(t)
  /\ pc[t] \notin {"ended", "dropped"} => ~Answered(t)
  /\ pc[t] \in Unbilled => started[t] = 0 /\ t \notin open \cup named
  /\ pc[t] \in InTurn \ Unbilled => started[t] = 1
  /\ started[t] <= 1
  /\ pc[t] = "session" => t \notin named
  /\ pc[t] = "close" =>
       /\ got[t] \in {"answer", "nameless", "failed"}
       /\ got[t] = "answer" <=> t \in named
  /\ pc[t] \in {"bill", "session", "close", "bind"} => resume[t] = stored
  /\ pc[t] = "answer" /\ t \in named => t \in stored
  /\ pc[t] = "ended" =>
       /\ got[t] \in {"answer", "unanswered", "failed"}
       /\ got[t] = "answer" => Answered(t)
       /\ got[t] = "unanswered" => Asked(t)
       /\ got[t] = "failed" /\ t \notin hurt => ~Answered(t)
  /\ told[t] # "nothing" => pc[t] = "ended" /\ told[t] = got[t]
  /\ t \in open => pc[t] \in {"session", "close", "dropped"} \/ t \in hurt
  /\ pc[t] \in {"bind", "answer"} => t \notin open
  /\ Answered(t) => started[t] = 1 /\ t \notin open /\ (t \in named => t \in stored)

TurnsInv == \A t \in Turn : TurnInv(t)

LoopInv ==
  /\ forgotten <= handled /\ offset <= handled + 1 /\ handled <= Len(posted)
  /\ \A n \in Update : n > handled => pc[n] = "unsaid"
  /\ loop \in {"check", "mark", "dispatch", "advance"} =>
       1 <= at /\ at <= upto /\ upto <= Len(posted)
  /\ At("mark") => handled < at
  /\ loop \in {"dispatch", "advance"} => at <= handled
  /\ At("dispatch") => told[at] = "nothing"

Inv == TypeOK /\ TurnsInv /\ LoopInv

-----------------------------------------------------------------------------
(* A row added to the thread                                                *)

\* Appending a row adds exactly it to the rows, and puts it at the end.
LEMMA RowAdded ==
  ASSUME thread \in Seq(RowType), NEW r \in {"user", "assistant"}, NEW t \in Turn,
         thread' = Append(thread, Row(r, t))
  PROVE  /\ thread' \in Seq(RowType)
         /\ Rows' = Rows \cup {Row(r, t)}
         /\ thread' # <<>> /\ thread'[Len(thread')] = Row(r, t)
<1>1. Row(r, t) \in RowType
  BY DEF Row, RowType
<1> DEFINE row == Row(r, t)
<1> HIDE DEF row
<1>2. /\ thread' \in Seq(RowType)
      /\ thread' # <<>> /\ thread'[Len(thread')] = row
      /\ Len(thread') = Len(thread) + 1
      /\ \A i \in 1..Len(thread) : thread'[i] = thread[i]
  BY <1>1, AppendProperties DEF row
<1>3. DOMAIN thread = 1..Len(thread) /\ DOMAIN thread' = 1..Len(thread')
      /\ Len(thread) \in Nat
  BY <1>2, LenProperties
<1>4. Rows' = Rows \cup {row}
  BY <1>2, <1>3 DEF Rows
<1> QED BY <1>2, <1>4 DEF row

\* A row is its role and its turn.
LEMMA RowsDiffer ==
  \A r1, r2, t1, t2 : Row(r1, t1) = Row(r2, t2) <=> r1 = r2 /\ t1 = t2
BY DEF Row

-----------------------------------------------------------------------------
(* Types                                                                    *)

\* Every step keeps every variable in its type.
LEMMA ConversationTypes == TypeOK /\ LoopInv /\ [Next]_vars => TypeOK'
<1> SUFFICES ASSUME TypeOK, LoopInv, [Next]_vars PROVE TypeOK'
  OBVIOUS
<1> USE ConversationAssumption DEF TypeOK, Nobody, Kind, LoopPC, TurnPC, Got, InTurn,
     Rest, telegramVars, markVars, threadVars, ledgerVars, heldVars, turnVars,
     loopVars, Trouble, SetMax, Goto, Return, Enqueue, At, Step, Elsewhere
<1>0. Update = 1..MaxUpdates /\ Update \subseteq Turn /\ Client \subseteq Turn
  BY DEF Turn, Update
<1>1. ASSUME NEW t \in Turn, Chatting(t) PROVE TypeOK'
  <2>1. CASE Ask(t)
    <3>1. thread' \in Seq(RowType)
      BY <2>1, RowAdded DEF Ask
    <3> QED BY <1>1, <2>1, <3>1 DEF Chatting, Ask
  <2>2. CASE Resume(t)
    BY <1>1, <2>2 DEF Chatting, Resume
  <2>3. CASE Bill(t)
    BY <1>1, <2>3 DEF Chatting, Bill
  <2>5. CASE Session(t)
    BY <1>1, <2>5 DEF Chatting, Session
  <2>6. CASE Bind(t)
    BY <1>1, <2>6 DEF Chatting, Bind
  <2>7. CASE Close(t)
    <3>1. CASE Goto(t, "bind") \/ Goto(t, "answer")
      BY <1>1, <2>7, <3>1 DEF Chatting, Close
    <3>2. CASE Return(t, "failed")
      BY <1>1, <2>7, <3>2 DEF Chatting, Close
    <3> QED BY <2>7, <3>1, <3>2 DEF Close
  <2>4. CASE Answer(t)
    <3>1. thread' \in Seq(RowType)
      BY <2>4, RowAdded DEF Answer
    <3> QED BY <1>1, <2>4, <3>1 DEF Chatting, Answer
  <2> QED BY <1>1, <2>1, <2>2, <2>3, <2>4, <2>5, <2>6, <2>7 DEF Chatting, TurnStep
<1>2. ASSUME NEW t \in Turn, Faulting(t) PROVE TypeOK'
  <2>1. \/ thread' = thread
        \/ thread' = Append(thread, Row("user", t))
        \/ thread' = Append(thread, Row("assistant", t))
    BY <1>2 DEF Faulting, TurnFault
  <2>2. thread' \in Seq(RowType)
    BY <2>1, RowAdded
  <2>3. started' = started \/ started' = [started EXCEPT ![t] = @ + 1]
    BY <1>2 DEF Faulting, TurnFault
  <2>4. open' \subseteq open \cup {t} /\ (stored' = stored \/ stored' = resume[t] \cup {t})
    BY <1>2 DEF Faulting, TurnFault
  <2>5. started' \in [Turn -> Nat] /\ open' \subseteq Turn /\ stored' \subseteq Turn
    <3>1. started' \in [Turn -> Nat]
      <4>1. [started EXCEPT ![t] = started[t] + 1] \in [Turn -> Nat]
        OBVIOUS
      <4> QED BY <2>3, <4>1
    <3>2. resume[t] \subseteq Turn
      OBVIOUS
    <3> QED BY <2>4, <3>1, <3>2
  <2>6. Return(t, "failed") /\ Trouble /\ hurt' = hurt \cup {t} /\ UNCHANGED named
        /\ Elsewhere
    BY <1>2 DEF Faulting, TurnFault
  <2>7. pc' \in [Turn -> TurnPC] /\ got' \in [Turn -> Got]
        /\ resume' \in [Turn -> SUBSET Turn] /\ holder' \in Turn \cup {Nobody}
    BY <2>6
  <2>8. trouble' \in 0..MaxTrouble /\ hurt' \subseteq Turn /\ named' \subseteq Turn
    BY <2>6
  <2>9. UNCHANGED <<telegramVars, markVars, loopVars, runner, proc, told>>
    BY <2>6
  <2> QED BY <2>2, <2>5, <2>7, <2>8, <2>9
<1>3. ASSUME NEW c \in Client, Say(c) \/ Respond(c) PROVE TypeOK'
  <2>1. CASE Say(c)
    BY <1>0, <2>1 DEF Say
  <2>2. CASE Respond(c)
    BY <1>0, <2>2 DEF Respond
  <2> QED BY <1>3, <2>1, <2>2
<1>4. ASSUME NEW kind \in Kind, Post(kind) PROVE TypeOK'
  BY <1>4, AppendProperties DEF Post
<1>5. CASE Poll \/ PollEmpty \/ PollFault
  <2>1. forgotten' \in 0..MaxUpdates
    BY <1>5 DEF Poll, PollEmpty, PollFault, Confirm
  <2>2. Len(posted) \in Nat
    BY LenProperties
  <2>3. CASE Poll
    <3>1. loop' \in LoopPC /\ at' \in 0..MaxUpdates /\ upto' \in 0..MaxUpdates
      <4>1. forgotten' < Len(posted) /\ loop' = "check" /\ at' = forgotten' + 1
            /\ upto' = Len(posted)
        BY <2>3 DEF Poll
      <4>2. Len(posted) <= MaxUpdates
        OBVIOUS
      <4>3. at' \in 0..MaxUpdates
        <5> HIDE DEF TypeOK
        <5>1. \A a, b \in Nat : a < b /\ b <= MaxUpdates => a + 1 \in 0..MaxUpdates
          OBVIOUS
        <5>2. forgotten' \in Nat
          BY <2>1
        <5> QED BY <2>2, <4>1, <4>2, <5>1, <5>2
      <4>4. upto' \in 0..MaxUpdates
        BY <2>2, <4>1, <4>2
      <4> QED BY <4>1, <4>3, <4>4
    <3>2. UNCHANGED <<posted, markVars, turnVars, runner, proc, told, trouble>>
      BY <2>3 DEF Poll
    <3> QED BY <2>1, <3>1, <3>2
  <2>4. CASE PollEmpty
    BY <2>1, <2>4 DEF PollEmpty
  <2>5. CASE PollFault
    BY <2>1, <2>5 DEF PollFault
  <2> QED BY <1>5, <2>3, <2>4, <2>5
<1>6. CASE Check
  BY <1>6 DEF Check
<1>7. CASE Reply
  <2>1. at \in Turn
    BY <1>0, <1>7 DEF Reply, LoopInv
  <2>2. told' \in [Turn -> Got] /\ trouble' \in 0..MaxTrouble
    BY <1>7, <2>1 DEF Reply
  <2> QED BY <1>7, <2>2 DEF Reply
<1>8. CASE Advance
  <2>1. at' \in 0..MaxUpdates /\ upto' \in 0..MaxUpdates /\ loop' \in LoopPC
    BY <1>8 DEF Advance, LoopInv
  <2>2. offset' \in 0..(MaxUpdates + 1)
    BY <1>8 DEF Advance
  <2> QED BY <1>8, <2>1, <2>2 DEF Advance
<1>9. CASE Mark
  <2>1. at \in Update
    BY <1>0, <1>9 DEF Mark, LoopInv
  <2> QED BY <1>0, <1>9, <2>1 DEF Mark
<1>10. CASE LoopFault
  <2>1. handled' \in 0..MaxUpdates /\ offset' \in 0..(MaxUpdates + 1)
    BY <1>10 DEF LoopFault, LoopInv
  <2>2. UNCHANGED <<telegramVars, turnVars, runner, proc, told>>
    BY <1>10 DEF LoopFault
  <2>3. /\ loop' \in LoopPC /\ at' \in 0..MaxUpdates /\ upto' \in 0..MaxUpdates
        /\ trouble' \in 0..MaxTrouble
    BY <1>10 DEF LoopFault
  <2> QED BY <2>1, <2>2, <2>3
<1>11. CASE Boot
  BY <1>11 DEF Boot
<1>14. CASE Sigterm
  BY <1>14 DEF Sigterm
<1>12. CASE Crash \/ PollerStops \/ ServerCloses
  <2>1. PICK T : Drop(T)
    BY <1>12 DEF Crash, PollerStops, ServerCloses
  <2>2. pc' \in [Turn -> TurnPC] /\ holder' \in Turn \cup {Nobody}
    BY <2>1 DEF Drop
  <2>5. resume' \in [Turn -> SUBSET Turn]
    <3>1. resume' = [t \in Turn |-> IF t \in T THEN {} ELSE resume[t]]
      BY <2>1 DEF Drop
    <3>2. \A t \in Turn : (IF t \in T THEN {} ELSE resume[t]) \in SUBSET Turn
      OBVIOUS
    <3> QED BY <3>1, <3>2
  <2>3. UNCHANGED <<threadVars, ledgerVars, got, named, hurt>>
    BY <2>1 DEF Drop
  <2>6. UNCHANGED <<telegramVars, markVars, runner, told>>
    BY <1>12 DEF Crash, PollerStops, ServerCloses
  <2>4. proc' \in {"down", "up", "stopping"} /\ trouble' \in 0..MaxTrouble
        /\ loop' \in LoopPC /\ at' \in 0..MaxUpdates /\ upto' \in 0..MaxUpdates
    BY <1>12 DEF Crash, PollerStops, ServerCloses
  <2> QED BY <2>2, <2>3, <2>4, <2>5, <2>6
<1>13. CASE UNCHANGED vars
  BY <1>13 DEF vars
<1> QED BY <1>1, <1>2, <1>3, <1>4, <1>5, <1>6, <1>7, <1>8, <1>9, <1>10, <1>11, <1>12,
     <1>13, <1>14 DEF Next, LoopStep

-----------------------------------------------------------------------------
(* Turns                                                                    *)

\* What a step of turn t leaves alone in every other turn u.
Same(u) ==
  /\ pc'[u] = pc[u] /\ resume'[u] = resume[u] /\ got'[u] = got[u]
  /\ started'[u] = started[u] /\ told'[u] = told[u]
  /\ u \in open' <=> u \in open
  /\ u \in named' <=> u \in named
  /\ u \in hurt' <=> u \in hurt

\* A step of turn t, as the others see it: it has the lock, or takes it.
Steps(t) ==
  /\ holder \in {t, Nobody}
  /\ \A u \in Turn \ {t} : Same(u)
  /\ \/ thread' = thread
     \/ \E r \in {"user", "assistant"} : thread' = Append(thread, Row(r, t))
  /\ stored \subseteq stored'

\* What one turn does inside the lock leaves the others' invariant alone.
LEMMA OthersUndisturbed ==
  ASSUME TypeOK, TurnsInv, NEW t \in Turn, Steps(t), NEW u \in Turn, u # t
  PROVE  TurnInv(u)'
<1>1. pc[u] \notin InTurn
  BY ConversationAssumption DEF TurnsInv, TurnInv, Steps, Nobody, Turn, Update
<1>2. (Asked(u)' <=> Asked(u)) /\ (Answered(u)' <=> Answered(u))
  <2>1. CASE thread' = thread
    BY <2>1 DEF Asked, Answered, Rows
  <2>2. ASSUME NEW r \in {"user", "assistant"}, thread' = Append(thread, Row(r, t))
        PROVE  (Asked(u)' <=> Asked(u)) /\ (Answered(u)' <=> Answered(u))
    <3>1. Rows' = Rows \cup {Row(r, t)}
      BY <2>2, RowAdded DEF TypeOK
    <3> QED BY <3>1, RowsDiffer DEF Asked, Answered
  <2> QED BY <2>1, <2>2 DEF Steps
<1>3. Same(u) /\ stored \subseteq stored'
  BY DEF Steps
<1>4. TurnInv(u)
  BY DEF TurnsInv
<1> QED BY <1>1, <1>2, <1>3, <1>4 DEF TurnInv, Same, InTurn, Unbilled

\* A step of a turn, failing or not, keeps the invariant of every turn.
LEMMA TurnStepKeeps ==
  ASSUME TypeOK, TurnsInv, NEW t \in Turn, Chatting(t) \/ Faulting(t)
  PROVE  TurnsInv'
<1> USE DEF TypeOK, telegramVars, markVars, threadVars, ledgerVars, heldVars, turnVars,
     loopVars, Goto, Return, Elsewhere, InTurn
<1>0. TurnInv(t) /\ Nobody # t
  BY ConversationAssumption DEF TurnsInv, Nobody, Turn, Update
<1>1. Steps(t)
  <2>1. CASE Ask(t) /\ Chatting(t)
    BY <2>1 DEF Chatting, Ask, Steps, Same, Free
  <2>2. CASE (Resume(t) \/ Session(t)) /\ Chatting(t)
    BY <1>0, <2>2 DEF Chatting, Resume, Session, Steps, Same, TurnInv
  <2>3. CASE Bill(t) /\ Chatting(t)
    BY <1>0, <2>3 DEF Chatting, Bill, Steps, Same, TurnInv
  <2>4. CASE Close(t) /\ Chatting(t)
    BY <1>0, <2>4 DEF Chatting, Close, Steps, Same, TurnInv
  <2>5. CASE Bind(t) /\ Chatting(t)
    BY <1>0, <2>5 DEF Chatting, Bind, Steps, Same, TurnInv
  <2>6. CASE Answer(t) /\ Chatting(t)
    BY <1>0, <2>6 DEF Chatting, Answer, Steps, Same, TurnInv
  <2>7. CASE Faulting(t)
    BY <1>0, <2>7 DEF Faulting, TurnFault, Steps, Same, TurnInv, Free
  <2> QED BY <2>1, <2>2, <2>3, <2>4, <2>5, <2>6, <2>7 DEF Chatting, TurnStep
<1>2. TurnInv(t)'
  <2>1. ASSUME NEW r \in {"user", "assistant"}, thread' = Append(thread, Row(r, t))
        PROVE  /\ Asked(t)' <=> Asked(t) \/ r = "user"
               /\ Answered(t)' <=> Answered(t) \/ r = "assistant"
               /\ r = "user" => AtEnd(t)'
    <3>1. Rows' = Rows \cup {Row(r, t)} /\ thread' # <<>>
          /\ thread'[Len(thread')] = Row(r, t)
      BY <2>1, RowAdded
    <3> QED BY <3>1, RowsDiffer DEF Asked, Answered, AtEnd
  <2>2. ASSUME thread' = thread
        PROVE  (Asked(t)' <=> Asked(t)) /\ (Answered(t)' <=> Answered(t))
               /\ (AtEnd(t)' <=> AtEnd(t))
    BY <2>2 DEF Asked, Answered, AtEnd, Rows
  <2>3. CASE Ask(t) /\ Chatting(t)
    <3>1. Asked(t)' /\ AtEnd(t)' /\ (Answered(t)' <=> Answered(t))
      BY <2>1, <2>3 DEF Ask
    <3> QED BY <1>0, <2>3, <3>1 DEF Chatting, Ask, TurnInv, Unbilled
  <2>4. CASE Resume(t) /\ Chatting(t)
    BY <1>0, <2>2, <2>4 DEF Chatting, Resume, TurnInv, Unbilled
  <2>5. CASE Bill(t) /\ Chatting(t)
    BY <1>0, <2>2, <2>5 DEF Chatting, Bill, TurnInv, Unbilled
  <2>6. CASE Session(t) /\ Chatting(t)
    BY <1>0, <2>2, <2>6 DEF Chatting, Session, TurnInv, Unbilled
  <2>7. CASE Close(t) /\ Chatting(t)
    BY <1>0, <2>2, <2>7 DEF Chatting, Close, TurnInv, Unbilled
  <2>8. CASE Bind(t) /\ Chatting(t)
    BY <1>0, <2>2, <2>8 DEF Chatting, Bind, TurnInv, Unbilled
  <2>9. CASE Answer(t) /\ Chatting(t)
    <3>1. Answered(t)' /\ (Asked(t)' <=> Asked(t))
      BY <2>1, <2>9 DEF Answer
    <3> QED BY <1>0, <2>9, <3>1 DEF Chatting, Answer, TurnInv, Unbilled
  <2>10. CASE Faulting(t)
    <3>1. CASE thread' = thread
      BY <1>0, <2>2, <2>10, <3>1 DEF Faulting, TurnFault, TurnInv, Unbilled
    <3>2. CASE pc[t] = "queued" /\ thread' = Append(thread, Row("user", t))
                 /\ UNCHANGED <<stored, ledgerVars>>
      BY <1>0, <2>1, <2>10, <3>2 DEF Faulting, TurnFault, TurnInv, Unbilled
    <3>3. CASE pc[t] = "answer" /\ thread' = Append(thread, Row("assistant", t))
                 /\ UNCHANGED <<stored, ledgerVars>>
      BY <1>0, <2>1, <2>10, <3>3 DEF Faulting, TurnFault, TurnInv, Unbilled
    <3> QED BY <2>10, <3>1, <3>2, <3>3 DEF Faulting, TurnFault
  <2> QED BY <2>3, <2>4, <2>5, <2>6, <2>7, <2>8, <2>9, <2>10 DEF Chatting, TurnStep
<1> QED BY <1>1, <1>2, OthersUndisturbed DEF TurnsInv

\* So does every other step: of the loop, the surfaces and the process.
LEMMA TurnsKeep == Inv /\ [Next]_vars => TurnsInv'
<1> SUFFICES ASSUME Inv, [Next]_vars PROVE TurnsInv'
  OBVIOUS
<1> USE DEF Inv, TypeOK, telegramVars, markVars, threadVars, ledgerVars, heldVars,
     turnVars, loopVars, Enqueue, At, Step, InTurn
<1>1. ASSUME NEW t \in Turn, Chatting(t) \/ Faulting(t) PROVE TurnsInv'
  BY <1>1, TurnStepKeeps
<1>2. ASSUME UNCHANGED <<heldVars, told>>, NEW t \in Turn,
             pc[t] = "unsaid", Enqueue(t)
      PROVE  TurnsInv'
  BY <1>2 DEF TurnsInv, TurnInv, Unbilled, Asked, Answered, AtEnd, Rows
<1>3. ASSUME UNCHANGED turnVars, NEW t \in Turn, pc[t] = "ended",
             told' = [told EXCEPT ![t] = got[t]]
      PROVE  TurnsInv'
  BY <1>3 DEF TurnsInv, TurnInv, Asked, Answered, AtEnd, Rows
<1>4. ASSUME UNCHANGED <<turnVars, told>> PROVE TurnsInv'
  BY <1>4 DEF TurnsInv, TurnInv, Asked, Answered, AtEnd, Rows
<1>5. ASSUME NEW T, Drop(T), UNCHANGED told PROVE TurnsInv'
  BY <1>5 DEF Drop, TurnsInv, TurnInv, Unbilled, Asked, Answered, AtEnd, Rows
<1>6. Update \subseteq Turn /\ Client \subseteq Turn
  BY DEF Turn
<1>7. at \in 1..Len(posted) => at \in Update
  BY DEF Update
<1>8. ASSUME NEW c \in Client, Say(c) PROVE TurnsInv'
  BY <1>2, <1>6, <1>8 DEF Say
<1>9. ASSUME NEW c \in Client, Respond(c) PROVE TurnsInv'
  BY <1>3, <1>6, <1>9 DEF Respond
<1>10. CASE Mark
  <2>1. at \in Update /\ pc[at] = "unsaid"
    BY <1>7, <1>10 DEF Mark, LoopInv
  <2> QED BY <1>2, <1>4, <1>6, <1>10, <2>1 DEF Mark
<1>11. CASE Reply
  BY <1>3, <1>4, <1>6, <1>11 DEF Reply, LoopInv, Update
<1>12. CASE Poll \/ PollEmpty \/ PollFault \/ Check \/ Advance \/ LoopFault \/ Boot
         \/ Sigterm \/ (\E kind \in Kind : Post(kind)) \/ UNCHANGED vars
  BY <1>4, <1>12 DEF Poll, PollEmpty, PollFault, Check, Advance, LoopFault, Boot,
     Sigterm, Post, vars
<1>13. CASE Crash \/ PollerStops \/ ServerCloses
  BY <1>5, <1>13 DEF Crash, PollerStops, ServerCloses
<1> QED BY <1>1, <1>8, <1>9, <1>10, <1>11, <1>12, <1>13 DEF Next, LoopStep

-----------------------------------------------------------------------------
(* The two marks                                                            *)

\* Every step keeps the order of the loop's two marks and Telegram's.
LEMMA LoopKeeps == Inv /\ [Next]_vars => LoopInv'
<1> SUFFICES ASSUME Inv, [Next]_vars PROVE LoopInv'
  OBVIOUS
<1> USE ConversationAssumption
     DEF Inv, TypeOK, telegramVars, markVars, threadVars, ledgerVars, heldVars,
     turnVars, loopVars, Enqueue, At, Step, Rest, SetMax, LoopInv, Elsewhere, Update
<1>0. Update \subseteq Turn /\ Client \cap Update = {}
  BY DEF Turn
<1>1. ASSUME NEW t \in Turn, Chatting(t) \/ Faulting(t) PROVE LoopInv'
  <2>1. pc[t] # "unsaid" /\ \A u \in Turn : u # t => pc'[u] = pc[u]
    BY <1>1 DEF Chatting, TurnStep, Faulting, TurnFault, Ask, Resume, Bill, Session,
       Close, Bind, Answer, Goto, Return, InTurn
  <2>2. UNCHANGED <<telegramVars, markVars, loopVars, told>>
    BY <1>1 DEF Chatting, Faulting
  <2> QED BY <1>0, <2>1, <2>2
<1>2. ASSUME NEW c \in Client, Say(c) \/ Respond(c) PROVE LoopInv'
  <2>1. c \in Turn /\ \A n \in Update : n # c
    BY <1>0 DEF Turn
  <2>2. CASE Say(c)
    BY <2>1, <2>2, <1>0 DEF Say
  <2>3. CASE Respond(c)
    <3>1. at \in Turn => told'[at] = told[at] \/ at = c
      BY <2>1, <2>3 DEF Respond
    <3>2. UNCHANGED <<telegramVars, markVars, loopVars, turnVars>>
      BY <2>3 DEF Respond
    <3>3. loop \in {"check", "mark", "dispatch", "advance"} => at \in Update
      OBVIOUS
    <3> QED BY <1>0, <2>1, <3>1, <3>2, <3>3
  <2> QED BY <1>2, <2>2, <2>3
<1>3. ASSUME NEW kind \in Kind, Post(kind) PROVE LoopInv'
  <2>1. Len(posted') = Len(posted) + 1 /\ Len(posted) \in Nat
    BY <1>3, AppendProperties, LenProperties DEF Post
  <2>2. UNCHANGED <<forgotten, markVars, loopVars, pc, told>>
    BY <1>3 DEF Post
  <2> QED BY <2>1, <2>2
<1>4. CASE Poll
  <2>1. forgotten' \in Nat /\ forgotten' <= handled /\ forgotten' < Len(posted)
    BY <1>4 DEF Poll, Confirm
  <2>2. UNCHANGED <<posted, offset, handled, pc, told>> /\ loop' = "check"
        /\ at' = forgotten' + 1 /\ upto' = Len(posted)
    BY <1>4 DEF Poll
  <2>3. Len(posted) \in Nat
    BY LenProperties
  <2>4. 1 <= at' /\ at' <= upto'
    <3>1. \A a, b \in Nat : a < b => 1 <= a + 1 /\ a + 1 <= b
      OBVIOUS
    <3> QED BY <2>1, <2>2, <2>3, <3>1
  <2>5. upto' <= Len(posted') /\ forgotten' <= handled'
    BY <2>1, <2>2, <2>3
  <2>6. \A n \in Update : n > handled' => pc'[n] = "unsaid"
    BY <2>2
  <2> QED BY <2>2, <2>4, <2>5, <2>6
<1>5. CASE PollEmpty \/ PollFault
  BY <1>5 DEF PollEmpty, PollFault, Confirm
<1>6. CASE Check
  BY <1>6 DEF Check
<1>7. CASE Mark
  <2>1. at \in Update /\ handled' = at /\ at' = at /\ upto' = upto
        /\ UNCHANGED <<telegramVars, offset, told>>
    BY <1>7 DEF Mark
  <2>2. \A n \in Update : n # at => pc'[n] = pc[n]
    BY <1>0, <1>7, <2>1 DEF Mark
  <2>3. told[at] = "nothing"
    BY <1>0, <1>7, <2>1 DEF Mark, TurnsInv, TurnInv
  <2>4. loop' = "dispatch" \/ loop' = "advance"
    BY <1>7 DEF Mark
  <2>5. 1 <= at /\ at <= upto /\ upto <= Len(posted) /\ handled < at
    BY <1>7 DEF Mark
  <2>6. \A n \in Update : n > handled' => n > handled /\ n # at
    BY <2>1, <2>5
  <2>7. forgotten' <= handled' /\ offset' <= handled' + 1 /\ handled' <= Len(posted')
    BY <2>1, <2>5
  <2>8. \A n \in Update : n > handled' => pc'[n] = "unsaid"
    BY <2>2, <2>6
  <2> QED BY <2>1, <2>3, <2>4, <2>5, <2>7, <2>8
<1>8. CASE Reply
  BY <1>8 DEF Reply
<1>9. CASE Advance
  BY <1>9 DEF Advance
<1>10. CASE LoopFault
  BY <1>10 DEF LoopFault
<1>11. CASE Boot \/ Sigterm \/ UNCHANGED vars
  BY <1>11 DEF Boot, Sigterm, vars
<1>12. CASE Crash \/ PollerStops \/ ServerCloses
  <2>1. PICK T : Drop(T)
    BY <1>12 DEF Crash, PollerStops, ServerCloses
  <2>2. \A n \in Update : pc[n] = "unsaid" => pc'[n] = "unsaid"
    BY <1>0, <2>1 DEF Drop
  <2>3. UNCHANGED <<telegramVars, markVars, told>>
        /\ (loop' = "gone" \/ UNCHANGED loopVars)
    BY <1>12 DEF Crash, PollerStops, ServerCloses
  <2> QED BY <2>2, <2>3
<1> QED BY <1>1, <1>2, <1>3, <1>4, <1>5, <1>6, <1>7, <1>8, <1>9, <1>10, <1>11, <1>12
     DEF Next, LoopStep

-----------------------------------------------------------------------------
(* The invariant and what follows from it                                   *)

\* The inductive invariant holds of an empty database and no process.
LEMMA ConversationInit == Init => Inv
<1> SUFFICES ASSUME Init PROVE Inv
  OBVIOUS
<1>1. TypeOK
  <2>1. <<>> \in Seq(Kind) /\ <<>> \in Seq(RowType) /\ Len(<<>>) = 0
    BY EmptySeq
  <2>2. posted \in Seq(Kind) /\ thread \in Seq(RowType) /\ Len(posted) <= MaxUpdates
    BY <2>1, ConversationAssumption DEF Init
  <2>3. forgotten \in 0..MaxUpdates /\ offset \in 0..(MaxUpdates + 1)
        /\ handled \in 0..MaxUpdates /\ at \in 0..MaxUpdates /\ upto \in 0..MaxUpdates
        /\ trouble \in 0..MaxTrouble
    BY ConversationAssumption DEF Init
  <2>4. pc \in [Turn -> TurnPC] /\ got \in [Turn -> Got] /\ told \in [Turn -> Got]
        /\ resume \in [Turn -> SUBSET Turn] /\ started \in [Turn -> Nat]
    BY DEF Init, TurnPC, Got
  <2> QED BY <2>2, <2>3, <2>4 DEF Init, TypeOK, LoopPC
<1>2. Rows = {}
  BY DEF Init, Rows
<1>3. TurnsInv
  BY <1>2 DEF Init, TurnsInv, TurnInv, Asked, Answered, InTurn, Unbilled
<1>4. LoopInv
  BY DEF Init, LoopInv, At, Update, Turn
<1> QED BY <1>1, <1>3, <1>4 DEF Inv

\* The inductive invariant holds of every reachable state.
THEOREM ConversationInvariance == Spec => []Inv
<1>1. Inv /\ [Next]_vars => Inv'
  BY ConversationTypes, TurnsKeep, LoopKeeps DEF Inv
<1> QED BY <1>1, ConversationInit, PTL DEF Spec

\* A message is charged at most once, whatever is redelivered, dropped or retried,
\* and Telegram forgets no update the daemon has not claimed.
THEOREM DeliveryIsSafe == Spec => [](BilledOnce /\ ForgottenWasClaimed)
<1>1. Inv => BilledOnce /\ ForgottenWasClaimed
  BY DEF Inv, TurnsInv, TurnInv, LoopInv, BilledOnce, ForgottenWasClaimed
<1> QED BY <1>1, ConversationInvariance, PTL

\* One turn at a time, and so the stored session has been through every answered
\* turn that reported its session; the ledger and the failure message are honest.
THEOREM ThreadIsSafe ==
  Spec => [](/\ TypeOK /\ OneSessionAtATime /\ AnswersAreRemembered
             /\ LedgerIsHonest /\ FailureIsTold)
<1>1. Inv => OneSessionAtATime
  BY DEF Inv, TurnsInv, TurnInv, OneSessionAtATime
<1>2. Inv => AnswersAreRemembered
  BY DEF Inv, TypeOK, TurnsInv, TurnInv, AnswersAreRemembered, Answered
<1>3. Inv => LedgerIsHonest
  BY DEF Inv, TypeOK, TurnsInv, TurnInv, LedgerIsHonest, Answered
<1>4. Inv => FailureIsTold
  BY DEF Inv, TurnsInv, TurnInv, FailureIsTold, Answered
<1> QED BY <1>1, <1>2, <1>3, <1>4, ConversationInvariance, PTL DEF Inv


-----------------------------------------------------------------------------
(* What at most once costs                                                  *)

\* A message of Telegram's is in say() only while the loop waits for it, and the
\* loop claims updates one after the other, and ends with the process.
InHandInv ==
  /\ \A n \in Update : pc[n] = "queued" => At("dispatch") /\ at = n
  /\ loop \in {"check", "mark"} => at <= handled + 1
  /\ proc = "down" => At("gone")

\* A loop told to stop may yet cost the message in its hand: the signal is
\* counted already.
Owed == IF proc = "stopping" /\ ~At("gone") THEN 1 ELSE 0

LossInv == InHandInv /\ Cardinality(Unrecorded) + Owed <= trouble

LEMMA UnrecordedIsFinite ==
  ASSUME handled \in Nat
  PROVE  IsFiniteSet(Unrecorded) /\ Cardinality(Unrecorded) \in Nat
<1>1. Unrecorded \subseteq 1..handled
  BY DEF Unrecorded
<1>2. IsFiniteSet(1..handled)
  BY FS_Interval
<1>3. IsFiniteSet(Unrecorded)
  BY <1>1, <1>2, FS_Subset
<1> QED BY <1>3, FS_CardinalityType

\* A step that loses no message, and is owed none.
LEMMA NoneUnrecorded ==
  ASSUME TypeOK, Cardinality(Unrecorded) + Owed <= trouble, handled' \in Nat, trouble' \in Nat,
         Unrecorded' \subseteq Unrecorded,
         \/ Owed' <= Owed /\ trouble' = trouble
         \/ trouble' = trouble + 1
  PROVE  Cardinality(Unrecorded') + Owed' <= trouble'
<1>1. IsFiniteSet(Unrecorded) /\ Cardinality(Unrecorded) \in Nat /\ trouble \in Nat
  BY UnrecordedIsFinite, ConversationAssumption DEF TypeOK
<1>2. Cardinality(Unrecorded') <= Cardinality(Unrecorded) /\ Cardinality(Unrecorded') \in Nat
  BY <1>1, FS_Subset, FS_CardinalityType
<1>3. Owed \in {0, 1} /\ Owed' \in {0, 1}
  BY DEF Owed
<1> QED BY <1>1, <1>2, <1>3

\* A step that may lose one, and is trouble, or had it coming.
LEMMA OneUnrecorded ==
  ASSUME TypeOK, Cardinality(Unrecorded) + Owed <= trouble, trouble' \in Nat,
         NEW n, Unrecorded' \subseteq Unrecorded \cup {n},
         \/ Owed' <= Owed /\ trouble' = trouble + 1
         \/ Owed' = 0 /\ Owed = 1 /\ trouble' = trouble
  PROVE  Cardinality(Unrecorded') + Owed' <= trouble'
<1>1. IsFiniteSet(Unrecorded) /\ Cardinality(Unrecorded) \in Nat /\ trouble \in Nat
  BY UnrecordedIsFinite, ConversationAssumption DEF TypeOK
<1>2. /\ IsFiniteSet(Unrecorded \cup {n})
      /\ Cardinality(Unrecorded \cup {n}) \in Nat
      /\ Cardinality(Unrecorded \cup {n}) <= Cardinality(Unrecorded) + 1
  BY <1>1, FS_AddElement, FS_CardinalityType
<1>3. /\ Cardinality(Unrecorded') <= Cardinality(Unrecorded \cup {n})
      /\ Cardinality(Unrecorded') \in Nat
  BY <1>2, FS_Subset, FS_CardinalityType
<1>4. Owed \in {0, 1} /\ Owed' \in {0, 1}
  BY DEF Owed
<1> QED BY <1>1, <1>2, <1>3, <1>4

\* A turn's step: only its failure at the insert can lose its message.
LEMMA LossInTurn ==
  ASSUME Inv, LossInv, NEW t \in Turn, Chatting(t) \/ Faulting(t)
  PROVE  LossInv'
<1>1. /\ UNCHANGED <<posted, handled, loop, at, proc>>
      /\ \A u \in Turn \ {t} : pc'[u] = pc[u]
      /\ pc'[t] # "queued"
  BY DEF Chatting, Faulting, Elsewhere, telegramVars, markVars, loopVars, TurnStep, TurnFault,
         Ask, Resume, Bill, Session, Close, Bind, Answer, Goto, Return, Inv, TypeOK
<1>2. Rows \subseteq Rows'
  <2>1. \/ thread' = thread
        \/ \E r \in {"user", "assistant"} : thread' = Append(thread, Row(r, t))
    BY DEF Chatting, Faulting, TurnStep, TurnFault, Ask, Resume, Bill, Session, Close, Bind,
           Answer, threadVars
  <2>2. CASE thread' = thread
    BY <2>2 DEF Rows
  <2>3. ASSUME NEW r \in {"user", "assistant"}, thread' = Append(thread, Row(r, t))
        PROVE  Rows \subseteq Rows'
    BY <2>3, RowAdded DEF Inv, TypeOK
  <2> QED BY <2>1, <2>2, <2>3
<1>3. InHandInv'
  <2>1. \A n \in Update : n \in Turn
    BY DEF Turn
  <2> QED BY <1>1, <2>1 DEF LossInv, InHandInv, At
<1>4. Owed' = Owed
  BY <1>1 DEF Owed, At
<1>5. Unrecorded' \subseteq Unrecorded \cup {t} /\ (pc[t] # "queued" => Unrecorded' \subseteq Unrecorded)
  <2>1. handled \in 0..MaxUpdates
    BY DEF Inv, TypeOK
  <2>2. \A n \in 1..handled : n \in Turn
    BY <2>1, ConversationAssumption DEF Turn, Update
  <2>3. ASSUME NEW n \in Unrecorded', n # t \/ pc[t] # "queued" PROVE n \in Unrecorded
    <3>1. /\ n \in 1..handled /\ posted[n] = "message" /\ Row("user", n) \notin Rows
          /\ pc'[n] # "queued"
      BY <1>1, <1>2, <2>3 DEF Unrecorded
    <3>2. pc[n] # "queued"
      BY <1>1, <2>2, <2>3, <3>1
    <3> QED BY <3>1, <3>2 DEF Unrecorded
  <2> QED BY <2>3
<1>6. trouble \in Nat /\ handled' \in Nat
  BY <1>1, ConversationAssumption DEF Inv, TypeOK
<1>7. CASE Chatting(t)
  <2>1. trouble' = trouble
    BY <1>7 DEF Chatting
  <2>2. Unrecorded' \subseteq Unrecorded
    <3>1. CASE pc[t] # "queued"
      BY <1>5, <3>1
    <3>2. CASE pc[t] = "queued"
      <4>1. thread' = Append(thread, Row("user", t))
        BY <1>7, <3>2 DEF Chatting, TurnStep, Ask, Resume, Bill, Session, Close, Bind, Answer
      <4>2. Row("user", t) \in Rows'
        BY <4>1, RowAdded DEF Inv, TypeOK
      <4>3. t \notin Unrecorded'
        BY <4>2 DEF Unrecorded
      <4> QED BY <1>5, <4>3
    <3> QED BY <3>1, <3>2
  <2> QED BY <1>3, <1>4, <1>6, <2>1, <2>2, NoneUnrecorded DEF LossInv, Inv, Owed
<1>8. CASE Faulting(t)
  <2>1. trouble' = trouble + 1
    BY <1>8 DEF Faulting, TurnFault, Trouble
  <2> QED BY <1>3, <1>4, <1>5, <1>6, <2>1, OneUnrecorded DEF LossInv, Inv, Owed
<1> QED BY <1>7, <1>8

\* The process or the loop is dropped where it stands: at most the message in
\* its hand is lost.
LEMMA LossInDrop ==
  ASSUME Inv, LossInv, NEW T, Drop(T), UNCHANGED <<posted, handled>>
  PROVE  Unrecorded' \subseteq Unrecorded \cup {at}
<1>1. handled \in 0..MaxUpdates /\ Rows' = Rows
  BY DEF Inv, TypeOK, Drop, threadVars, Rows
<1> SUFFICES ASSUME NEW n \in Unrecorded', n # at PROVE n \in Unrecorded
  OBVIOUS
<1>2. n \in 1..handled /\ posted[n] = "message" /\ Row("user", n) \notin Rows
  BY <1>1 DEF Unrecorded
<1>3. n \in Update
  BY <1>1, <1>2, ConversationAssumption DEF Update
<1>4. pc[n] # "queued"
  BY <1>3 DEF LossInv, InHandInv
<1> QED BY <1>2, <1>4 DEF Unrecorded

\* The message in hand, the signal and the marks account for each other after
\* every step.
LEMMA LossNext == Inv /\ LossInv /\ [Next]_vars => LossInv'
<1> SUFFICES ASSUME Inv, LossInv, [Next]_vars PROVE LossInv'
  OBVIOUS
<1> USE DEF telegramVars, markVars, loopVars, heldVars, threadVars, ledgerVars, turnVars
<1>1. /\ TypeOK /\ InHandInv /\ Cardinality(Unrecorded) + Owed <= trouble
      /\ trouble \in Nat /\ handled \in Nat /\ handled <= MaxUpdates /\ at \in Nat
      /\ forgotten \in Nat /\ offset \in Nat /\ Len(posted) \in Nat
      /\ Owed \in {0, 1} /\ Owed' \in {0, 1}
  BY ConversationAssumption, LenProperties DEF Inv, TypeOK, LossInv, Owed
<1>2. \A n \in 1..handled : n \in Update
  BY <1>1, ConversationAssumption DEF Update
<1>3. Update \subseteq Turn /\ Client \subseteq Turn /\ Client \cap Update = {}
  BY ConversationAssumption DEF Update, Turn
<1>4. /\ forgotten <= handled /\ offset <= handled + 1 /\ handled <= Len(posted)
      /\ At("mark") => handled < at
      /\ loop \in {"dispatch", "advance"} => at <= handled
      /\ loop \in {"check", "mark", "dispatch", "advance"} => at \in Update
  BY <1>1 DEF Inv, TypeOK, LoopInv, Update
\* A step that queues and loses nothing, and pays no trouble it need not.
<1>5. ASSUME UNCHANGED <<handled, thread>>,
             \A n \in 1..handled : posted'[n] = posted[n],
             \A n \in Update : pc'[n] = pc[n],
             (Owed' <= Owed /\ trouble' = trouble) \/ trouble' = trouble + 1
      PROVE  Cardinality(Unrecorded') + Owed' <= trouble'
  <2>1. Unrecorded' \subseteq Unrecorded
    BY <1>2, <1>5 DEF Unrecorded, Rows
  <2>2. handled' \in Nat /\ trouble' \in Nat
    BY <1>1, <1>5
  <2> QED BY <1>1, <1>5, <2>1, <2>2, NoneUnrecorded
<1>6. ASSUME NEW t \in Turn, Chatting(t) \/ Faulting(t) PROVE LossInv'
  BY <1>6, LossInTurn
<1>7. ASSUME NEW c \in Client, Say(c) \/ Respond(c) PROVE LossInv'
  <2>1. UNCHANGED <<handled, thread, posted, loop, at, proc, trouble>>
    BY <1>7 DEF Say, Respond
  <2>2. \A n \in Update : pc'[n] = pc[n]
    BY <1>3, <1>7 DEF Say, Respond, Enqueue, Inv, TypeOK
  <2>3. Owed' = Owed
    BY <2>1 DEF Owed, At
  <2>4. InHandInv'
    BY <1>1, <2>1, <2>2 DEF InHandInv, At
  <2> QED BY <1>1, <1>5, <2>1, <2>2, <2>3, <2>4 DEF LossInv
<1>8. ASSUME NEW kind \in Kind, Post(kind) PROVE LossInv'
  <2>1. UNCHANGED <<handled, thread, loop, at, proc, trouble, pc>>
    BY <1>8 DEF Post
  <2>2. \A n \in 1..handled : posted'[n] = posted[n]
    <3>1. \A n \in 1..Len(posted) : Append(posted, kind)[n] = posted[n]
      BY AppendProperties DEF Inv, TypeOK
    <3> QED BY <1>1, <1>4, <1>8, <3>1 DEF Post
  <2>3. Owed' = Owed
    BY <2>1 DEF Owed, At
  <2>4. InHandInv'
    BY <1>1, <2>1 DEF InHandInv, At
  <2> QED BY <1>1, <1>5, <2>1, <2>2, <2>3, <2>4 DEF LossInv
<1>9. CASE Poll \/ PollEmpty \/ PollFault
  <2>1. UNCHANGED <<handled, thread, posted, proc, pc>> /\ At("idle")
    BY <1>9 DEF Poll, PollEmpty, PollFault
  <2>2. trouble' = trouble \/ trouble' = trouble + 1
    BY <1>9 DEF Poll, PollEmpty, PollFault, Trouble
  <2>3. loop' \in {"check", "idle"} /\ (loop' = "check" => at' = forgotten' + 1)
    BY <1>9 DEF Poll, PollEmpty, PollFault, At
  <2>4. forgotten' \in Int /\ forgotten' <= handled
    BY <1>1, <1>4, <1>9 DEF Poll, PollEmpty, PollFault, Confirm, SetMax
  <2>5. Owed' = Owed
    BY <2>1, <2>3 DEF Owed, At
  <2>6. InHandInv'
    <3>1. \A n \in Update : pc'[n] # "queued"
      BY <1>1, <2>1 DEF InHandInv, At
    <3>2. loop' \in {"check", "mark"} => at' <= handled' + 1
      BY <1>1, <2>1, <2>3, <2>4
    <3> QED BY <1>1, <2>1, <3>1, <3>2 DEF InHandInv, At
  <2> QED BY <1>1, <1>5, <2>1, <2>2, <2>5, <2>6 DEF LossInv
<1>10. CASE Check
  <2>1. /\ UNCHANGED <<handled, thread, posted, proc, pc, at, trouble>>
        /\ At("check") /\ loop' \in {"mark", "advance"}
    BY <1>10 DEF Check, Step
  <2>2. Owed' = Owed
    BY <2>1 DEF Owed, At
  <2>3. InHandInv'
    BY <1>1, <2>1 DEF InHandInv, At
  <2> QED BY <1>1, <1>5, <2>1, <2>2, <2>3 DEF LossInv
<1>11. CASE Mark
  <2>1. /\ UNCHANGED <<thread, posted, proc, at, trouble>>
        /\ At("mark") /\ loop' \in {"dispatch", "advance"}
        /\ handled' = SetMax(handled, at)
    BY <1>11 DEF Mark, Step
  <2>2. at = handled + 1 /\ handled' = handled + 1 /\ at \in Turn
    BY <1>1, <1>3, <1>4, <2>1 DEF InHandInv, SetMax, At
  <2>3. /\ \A n \in Update : n # at => pc'[n] = pc[n] /\ pc[n] # "queued"
        /\ posted[at] = "message" => pc'[at] = "queued" /\ loop' = "dispatch"
        /\ posted[at] # "message" => pc'[at] = pc[at]
        /\ pc[at] # "queued"
    <3>1. \A n \in Update : pc[n] # "queued"
      BY <1>1, <2>1 DEF InHandInv, At
    <3>2. at \in Update
      BY <1>4, <2>1 DEF At
    <3> QED BY <1>3, <1>11, <3>1, <3>2 DEF Mark, Enqueue, Step, Inv, TypeOK
  <2>4. Owed' = Owed
    BY <2>1 DEF Owed, At
  <2>5. InHandInv'
    BY <1>1, <2>1, <2>3 DEF InHandInv, At
  <2>6. Unrecorded' \subseteq Unrecorded
    <3> SUFFICES ASSUME NEW n \in Unrecorded' PROVE n \in Unrecorded
      OBVIOUS
    <3>1. /\ n \in 1..handled' /\ posted[n] = "message" /\ Row("user", n) \notin Rows
          /\ pc'[n] # "queued"
      BY <2>1 DEF Unrecorded, Rows
    <3>2. n # at
      BY <2>3, <3>1
    <3>3. n \in 1..handled
      BY <1>1, <2>2, <3>1, <3>2
    <3>4. pc[n] # "queued"
      BY <1>2, <2>3, <3>2, <3>3
    <3> QED BY <3>1, <3>3, <3>4 DEF Unrecorded
  <2> QED BY <1>1, <2>1, <2>2, <2>4, <2>5, <2>6, NoneUnrecorded DEF LossInv
<1>12. CASE Reply
  <2>1. /\ UNCHANGED <<handled, thread, posted, proc, pc, at>>
        /\ At("dispatch") /\ loop' = "advance" /\ pc[at] = "ended"
    BY <1>12 DEF Reply, Step
  <2>2. trouble' = trouble \/ trouble' = trouble + 1
    BY <1>12 DEF Reply, Trouble
  <2>3. Owed' = Owed
    BY <2>1 DEF Owed, At
  <2>4. InHandInv'
    BY <1>1, <2>1 DEF InHandInv, At
  <2> QED BY <1>1, <1>5, <2>1, <2>2, <2>3, <2>4 DEF LossInv
<1>13. CASE Advance
  <2>1. /\ UNCHANGED <<handled, thread, posted, proc, pc, trouble>>
        /\ At("advance")
        /\ loop' = "idle" \/ (loop' = "check" /\ at' = at + 1)
    BY <1>13 DEF Advance, Rest
  <2>2. Owed' = Owed
    BY <2>1 DEF Owed, At
  <2>3. InHandInv'
    <3>1. \A n \in Update : pc'[n] # "queued"
      BY <1>1, <2>1 DEF InHandInv, At
    <3>2. loop' \in {"check", "mark"} => at' <= handled' + 1
      BY <1>1, <1>4, <2>1 DEF At
    <3> QED BY <1>1, <2>1, <3>1, <3>2 DEF InHandInv, At
  <2> QED BY <1>1, <1>5, <2>1, <2>2, <2>3 DEF LossInv
<1>14. CASE LoopFault
  <2>1. /\ UNCHANGED <<thread, posted, proc, pc>>
        /\ loop \in {"check", "mark", "advance"} /\ loop' = "idle"
        /\ trouble' = trouble + 1
        /\ handled' = handled \/ (At("mark") /\ handled' = SetMax(handled, at))
    BY <1>14 DEF LoopFault, Rest, Trouble
  <2>2. handled' = handled \/ (handled' = handled + 1 /\ at = handled + 1)
    BY <1>1, <1>4, <2>1 DEF InHandInv, SetMax, At
  <2>3. Owed' = Owed
    BY <2>1 DEF Owed, At
  <2>4. InHandInv'
    BY <1>1, <2>1 DEF InHandInv, At
  <2>5. Unrecorded' \subseteq Unrecorded \cup {at}
    <3> SUFFICES ASSUME NEW n \in Unrecorded', n # at PROVE n \in Unrecorded
      OBVIOUS
    <3>1. /\ n \in 1..handled' /\ posted[n] = "message" /\ Row("user", n) \notin Rows
          /\ pc[n] # "queued"
      BY <2>1 DEF Unrecorded, Rows
    <3>2. n \in 1..handled
      BY <1>1, <2>2, <3>1
    <3> QED BY <3>1, <3>2 DEF Unrecorded
  <2>6. trouble' \in Nat /\ Owed' <= Owed
    BY <1>1, <2>1, <2>3
  <2> QED BY <1>1, <2>1, <2>4, <2>5, <2>6, OneUnrecorded DEF LossInv
<1>15. CASE Boot
  <2>1. /\ UNCHANGED <<handled, thread, posted, pc, trouble>>
        /\ proc = "down" /\ proc' = "up" /\ loop' = "idle"
    BY <1>15 DEF Boot, Rest
  <2>3. InHandInv'
    BY <1>1, <2>1 DEF InHandInv, At
  <2>4. Owed' = 0
    BY <2>1 DEF Owed
  <2> QED BY <1>1, <1>5, <2>1, <2>3, <2>4 DEF LossInv
<1>16. CASE Sigterm
  <2>1. /\ UNCHANGED <<handled, thread, posted, pc, loop, at>>
        /\ proc' = "stopping" /\ trouble' = trouble + 1
    BY <1>16 DEF Sigterm, Trouble
  <2>2. InHandInv'
    BY <1>1, <2>1 DEF InHandInv, At
  <2> QED BY <1>5, <2>1, <2>2 DEF LossInv
<1>17. CASE Crash \/ PollerStops
  <2>1. PICK T : Drop(T) /\ Update \subseteq T
    BY <1>3, <1>17 DEF Crash, PollerStops
  <2>2. /\ UNCHANGED <<posted, handled>> /\ loop' = "gone"
        /\ \/ trouble' = trouble + 1
           \/ Owed = 1 /\ trouble' = trouble
    BY <1>17 DEF Crash, PollerStops, Rest, Trouble, Owed
  <2>3. \A n \in Update : pc'[n] # "queued"
    <3>1. \A n \in Update : pc[n] = "queued" => told[n] = "nothing"
      BY <1>3 DEF Inv, TurnsInv, TurnInv
    <3> QED BY <1>3, <2>1, <3>1 DEF Drop
  <2>4. InHandInv'
    BY <2>2, <2>3 DEF InHandInv, At
  <2>5. Unrecorded' \subseteq Unrecorded \cup {at}
    BY <2>1, <2>2, LossInDrop
  <2>6. Owed' = 0 /\ trouble' \in Nat
    BY <1>1, <2>2 DEF Owed, At
  <2>7. \/ Owed' <= Owed /\ trouble' = trouble + 1
        \/ Owed' = 0 /\ Owed = 1 /\ trouble' = trouble
    BY <1>1, <2>2, <2>6
  <2> QED BY <1>1, <2>4, <2>5, <2>6, <2>7, OneUnrecorded DEF LossInv
<1>18. CASE ServerCloses
  <2>1. /\ UNCHANGED <<handled, thread, posted, loop, at, trouble>>
        /\ At("gone") /\ proc' = "down" /\ Drop(Client)
    BY <1>18 DEF ServerCloses, Drop
  <2>2. \A n \in Update : pc'[n] = pc[n]
    BY <1>3, <2>1 DEF Drop
  <2>3. Owed' = 0
    BY <2>1 DEF Owed, At
  <2>4. InHandInv'
    BY <1>1, <2>1, <2>2 DEF InHandInv, At
  <2> QED BY <1>1, <1>5, <2>1, <2>2, <2>3, <2>4 DEF LossInv
<1>19. CASE UNCHANGED vars
  <2>1. UNCHANGED <<handled, thread, posted, loop, at, proc, trouble, pc>>
    BY <1>19 DEF vars
  <2>2. Owed' = Owed /\ InHandInv'
    BY <1>1, <2>1 DEF Owed, At, InHandInv
  <2> QED BY <1>1, <1>5, <2>1, <2>2 DEF LossInv
<1> QED BY <1>6, <1>7, <1>8, <1>9, <1>10, <1>11, <1>12, <1>13, <1>14, <1>15, <1>16, <1>17,
     <1>18, <1>19 DEF Next, LoopStep

\* Each message claimed and never recorded is the fault of one crash, signal or
\* fault of the store, whatever their order and however many there are.
THEOREM LossIsBoundedHolds == Spec => []LossIsBounded
<1>1. Init => LossInv
  <2> SUFFICES ASSUME Init PROVE LossInv
    OBVIOUS
  <2>1. Unrecorded = {} /\ Owed = 0 /\ trouble = 0
    BY DEF Init, Unrecorded, Owed, At
  <2>2. Cardinality(Unrecorded) = 0
    BY <2>1, FS_EmptySet
  <2>3. InHandInv
    BY DEF Init, InHandInv, Turn, At
  <2> QED BY <2>1, <2>2, <2>3 DEF LossInv
<1>2. Inv /\ LossInv => LossIsBounded
  <2> SUFFICES ASSUME Inv, LossInv PROVE LossIsBounded
    OBVIOUS
  <2>1. handled \in Nat /\ trouble \in Nat
    BY ConversationAssumption DEF Inv, TypeOK
  <2>2. Cardinality(Unrecorded) \in Nat /\ Owed \in {0, 1}
    BY <2>1, UnrecordedIsFinite DEF Owed
  <2> QED BY <2>1, <2>2 DEF LossInv, LossIsBounded
<1> QED BY <1>1, <1>2, LossNext, ConversationInvariance, PTL DEF Spec

-----------------------------------------------------------------------------
(* The promise                                                              *)

\* Every step is a step of the promise, or changes nothing the owner sees.
LEMMA ThreadStep ==
  Inv /\ [Next]_vars => [Promise!Next]_(Promise!pvars)
<1> SUFFICES ASSUME Inv, [Next]_vars PROVE [Promise!Next]_(Promise!pvars)
  OBVIOUS
<1> USE DEF telegramVars, markVars, threadVars, ledgerVars, heldVars, turnVars, loopVars,
     Promise!pvars, Promise!Next, InTurn
<1> DEFINE Asks(t) == ~Asked(t) /\ thread' = Append(thread, Row("user", t))
           Answers(t) == AtEnd(t) /\ thread' = Append(thread, Row("assistant", t))
           Tells(t) ==
             /\ told[t] = "nothing" /\ pc[t] = "ended"
             /\ told' = [told EXCEPT ![t] = got[t]]
<1>0. /\ Promise!Rows = Rows
      /\ \A r, t : Promise!Row(r, t) = Row(r, t)
  BY DEF Promise!Rows, Rows, Promise!Row, Row
<1>1. UNCHANGED <<thread, told>> => [Promise!Next]_(Promise!pvars)
  OBVIOUS
<1>2. ASSUME NEW t \in Turn, Asks(t) \/ Answers(t), UNCHANGED told
      PROVE  Promise!Next
  BY <1>0, <1>2 DEF Promise!Ask, Promise!Answer, Asked, AtEnd
<1>3. ASSUME NEW t \in Turn, Tells(t), UNCHANGED thread PROVE Promise!Next
  <2>1. /\ got[t] \in {"answer", "unanswered", "failed"}
        /\ got[t] = "answer" => Answered(t)
        /\ got[t] = "unanswered" => Asked(t)
    BY <1>3 DEF Inv, TurnsInv, TurnInv
  <2> QED BY <1>0, <1>3, <2>1 DEF Promise!Tell, Asked, Answered
<1>4. ASSUME NEW t \in Turn, Chatting(t) \/ Faulting(t)
      PROVE  UNCHANGED told /\ (thread' = thread \/ Asks(t) \/ Answers(t))
  <2>1. TurnInv(t)
    BY DEF Inv, TurnsInv
  <2>2. CASE Chatting(t)
    BY <2>1, <2>2 DEF TurnInv, Chatting, Elsewhere, TurnStep, Ask, Resume, Bill,
       Session, Close, Bind, Answer
  <2>3. CASE Faulting(t)
    BY <2>1, <2>3 DEF TurnInv, Faulting, Elsewhere, TurnFault
  <2> QED BY <1>4, <2>2, <2>3
<1>5. ASSUME NEW c \in Client, Say(c) \/ Respond(c)
      PROVE  UNCHANGED thread /\ (told' = told \/ Tells(c))
  BY <1>5 DEF Say, Respond
<1>6. CASE Reply
  <2>1. at \in Turn
    BY <1>6 DEF Reply, Inv, TypeOK, LoopInv, At, Turn, Update
  <2>2. UNCHANGED thread /\ (told' = told \/ Tells(at))
    BY <1>6 DEF Reply, Inv, LoopInv, At
  <2> QED BY <1>1, <1>3, <2>1, <2>2
<1>7. CASE Poll \/ PollEmpty \/ PollFault \/ Check \/ Mark \/ Advance \/ LoopFault
        \/ Boot \/ Sigterm \/ Crash \/ PollerStops \/ ServerCloses
        \/ (\E kind \in Kind : Post(kind)) \/ UNCHANGED vars
  <2>1. UNCHANGED <<thread, told>>
    BY <1>7 DEF Poll, PollEmpty, PollFault, Check, Mark, Advance, LoopFault, Boot,
       Sigterm, Crash, PollerStops, ServerCloses, Drop, Post, vars
  <2> QED BY <1>1, <2>1
<1>8. Client \subseteq Turn
  BY DEF Turn
<1>9. ASSUME NEW t \in Turn, Chatting(t) \/ Faulting(t)
      PROVE  [Promise!Next]_(Promise!pvars)
  BY <1>1, <1>2, <1>4, <1>9
<1>10. ASSUME NEW c \in Client, Say(c) \/ Respond(c)
       PROVE  [Promise!Next]_(Promise!pvars)
  BY <1>1, <1>3, <1>5, <1>8, <1>10
<1> QED BY <1>6, <1>7, <1>9, <1>10 DEF Next, LoopStep

\* The conversation implements the promise it makes its owner.
THEOREM ThreadIsKept == Spec => KeepsPromise
<1>1. Init => Promise!Init
  BY DEF Init, Promise!Init
<1> QED BY <1>1, ThreadStep, ConversationInvariance, PTL
        DEF Spec, KeepsPromise, Promise!Spec
=============================================================================
