----------------------------- MODULE Conversation -----------------------------
(***************************************************************************)
(* The conversation of ea-daemon and the two ways into it: the Telegram    *)
(* update loop with its two durable marks (the offset and the handled      *)
(* high-water mark), and `ea chat` over the IPC socket.  Both end in       *)
(* ChatService::say, which holds one lock for a whole turn: store the      *)
(* message, run a paid `claude` session that resumes the stored one, store *)
(* the session and the reply.                                              *)
(*                                                                         *)
(* One step per request to the database, to Telegram or to the session;    *)
(* between two of them the process may die, be told to stop, or find the   *)
(* database or the network failing.  A `claude` session is the set of      *)
(* turns it remembers.                                                     *)
(***************************************************************************)
EXTENDS Integers, Sequences, FiniteSets

CONSTANTS
  MaxUpdates,  \* bound: updates Telegram receives for the bot
  Client,      \* `ea chat` messages typed at the terminal
  MaxTrouble   \* bound: crashes, signals, store and network faults

Update == 1..MaxUpdates          \* Telegram's update_ids
Turn == Update \cup Client
Nobody == 0

ASSUME ConversationAssumption ==
  /\ MaxUpdates \in Nat
  /\ MaxTrouble \in Nat
  /\ Client \cap Int = {}

VARIABLES
  \* Telegram's side
  posted,      \* the kind of each update received so far, by update_id
  forgotten,   \* the highest update_id the bot has confirmed
  \* durable: the database
  offset,      \* kv: the cursor getUpdates is asked with (0: no row)
  handled,     \* kv: the highest update_id claimed (0: no row)
  thread,      \* messages: role and turn, in order
  stored,      \* conversations.claude_session, as what it remembers
  started,     \* per turn: the `runs` rows of kind "chat" opened for it
  open,        \* turns with such a row still open
  \* in memory: lost with the process
  loop,        \* where the update loop is
  at,          \* the update it is at
  upto,        \* the last update of its batch
  holder,      \* ChatService.turn: the turn that holds the lock, or Nobody
  pc,          \* where each turn is
  resume,      \* the session it resumes
  got,         \* what it came to
  runner,      \* whether startup found a `claude` to run
  proc,        \* the life of the process
  \* history and bounds
  told,        \* what the owner was told about each turn
  named,       \* turns whose session reported its id
  hurt,        \* turns that met a store fault
  trouble      \* crashes, signals and faults so far

telegramVars == <<posted, forgotten>>
markVars == <<offset, handled>>
threadVars == <<thread, stored>>
ledgerVars == <<started, open>>
loopVars == <<loop, at, upto>>
heldVars == <<threadVars, ledgerVars, holder, resume, got, named, hurt>>
turnVars == <<pc, heldVars>>

vars == <<telegramVars, markVars, loopVars, turnVars, runner, proc, told, trouble>>

Kind == {"message", "other"}
LoopPC == {"idle", "check", "mark", "dispatch", "advance", "gone"}
TurnPC == {"unsaid", "queued", "resume", "bill", "session", "close", "bind",
           "answer", "ended", "dropped"}
Got == {"nothing", "answer", "nameless", "failed", "unanswered"}
Row(r, t) == [role |-> r, turn |-> t]
RowType == [role : {"user", "assistant"}, turn : Turn]
Rows == {thread[i] : i \in DOMAIN thread}

\* The points at which say() is past the lock.
InTurn == {"resume", "bill", "session", "close", "bind", "answer"}

At(p) == loop = p

Init ==
  /\ posted = <<>>
  /\ forgotten = 0
  /\ offset = 0
  /\ handled = 0
  /\ thread = <<>>
  /\ stored = {}
  /\ started = [t \in Turn |-> 0]
  /\ open = {}
  /\ loop = "gone"
  /\ at = 0
  /\ upto = 0
  /\ holder = Nobody
  /\ pc = [t \in Turn |-> "unsaid"]
  /\ resume = [t \in Turn |-> {}]
  /\ got = [t \in Turn |-> "nothing"]
  /\ runner = FALSE
  /\ proc = "down"
  /\ told = [t \in Turn |-> "nothing"]
  /\ named = {}
  /\ hurt = {}
  /\ trouble = 0

Serving == proc \in {"up", "stopping"}
Trouble == trouble < MaxTrouble /\ trouble' = trouble + 1
SetMax(old, value) == IF old < value THEN value ELSE old

\* Mutant: no lock.
FreeAlways(t) == TRUE

Free(t) == holder \in {t, Nobody}

-----------------------------------------------------------------------------
(* One chat turn: ChatService::say and reply_to                             *)

\* The message waits for the turn in progress, if there is one.
Enqueue(t) == pc' = [pc EXCEPT ![t] = "queued"]

\* The turn goes on, holding the lock.
Goto(t, p) ==
  /\ pc' = [pc EXCEPT ![t] = p]
  /\ holder' = t
  /\ UNCHANGED <<resume, got>>

\* Mutant: the lock is not released when the turn is over.
ReturnHolding(t, result) ==
  /\ pc' = [pc EXCEPT ![t] = "ended"]
  /\ resume' = [resume EXCEPT ![t] = {}]
  /\ got' = [got EXCEPT ![t] = result]
  /\ UNCHANGED holder

\* say() returns: the guard is dropped, and any message waiting may go on.
Return(t, result) ==
  /\ pc' = [pc EXCEPT ![t] = "ended"]
  /\ resume' = [resume EXCEPT ![t] = {}]
  /\ got' = [got EXCEPT ![t] = result]
  /\ holder' = Nobody

\* Mutant: the message is stored before the lock is taken.
AskEarly(t) ==
  /\ pc[t] = "queued"
  /\ thread' = Append(thread, Row("user", t))
  /\ IF runner THEN Goto(t, "resume") ELSE Return(t, "unanswered")
  /\ UNCHANGED <<stored, ledgerVars, named, hurt>>

\* Join the thread as it is now, and store what the human said.
Ask(t) ==
  /\ pc[t] = "queued"
  /\ Free(t)
  /\ thread' = Append(thread, Row("user", t))
  /\ IF runner THEN Goto(t, "resume") ELSE Return(t, "unanswered")
  /\ UNCHANGED <<stored, ledgerVars, named, hurt>>

\* Mutant: every turn starts a session of its own.
ResumeNothing(t) ==
  /\ pc[t] = "resume"
  /\ Goto(t, "bill")
  /\ UNCHANGED <<threadVars, ledgerVars, named, hurt>>

\* Read the relevant facts and the session id the thread was last left with.
Resume(t) ==
  /\ pc[t] = "resume"
  /\ pc' = [pc EXCEPT ![t] = "bill"]
  /\ resume' = [resume EXCEPT ![t] = stored]
  /\ UNCHANGED <<threadVars, ledgerVars, holder, got, named, hurt>>

\* SessionRunner::run opens the `runs` row before the child is spawned.
Bill(t) ==
  /\ pc[t] = "bill"
  /\ started' = [started EXCEPT ![t] = @ + 1]
  /\ open' = open \cup {t}
  /\ Goto(t, "session")
  /\ UNCHANGED <<threadVars, named, hurt>>

\* The child answers (with or without a session id), fails, or overruns its
\* timeout and is taken apart.
Session(t) ==
  /\ pc[t] = "session"
  /\ pc' = [pc EXCEPT ![t] = "close"]
  /\ \E result \in {"answer", "nameless", "failed"} :
       /\ got' = [got EXCEPT ![t] = result]
       /\ named' = IF result = "answer" THEN named \cup {t} ELSE named
  /\ UNCHANGED <<threadVars, ledgerVars, holder, resume, hurt>>

\* Mutant: a failed session leaves its row open.
CloseOnSuccess(t) ==
  /\ pc[t] = "close"
  /\ open' = IF got[t] = "failed" THEN open ELSE open \ {t}
  /\ \/ got[t] = "answer" /\ Goto(t, "bind")
     \/ got[t] = "nameless" /\ Goto(t, "answer")
     \/ got[t] = "failed" /\ Return(t, "failed")
  /\ UNCHANGED <<threadVars, started, named, hurt>>

\* Mutant: the error text of a failed session is stored as a reply.
ClosePhantom(t) ==
  /\ pc[t] = "close"
  /\ open' = open \ {t}
  /\ thread' = IF got[t] = "failed"
                 THEN Append(thread, Row("assistant", t)) ELSE thread
  /\ \/ got[t] = "answer" /\ Goto(t, "bind")
     \/ got[t] = "nameless" /\ Goto(t, "answer")
     \/ got[t] = "failed" /\ Return(t, "failed")
  /\ UNCHANGED <<stored, started, named, hurt>>

\* The row is closed on success and on failure alike.
Close(t) ==
  /\ pc[t] = "close"
  /\ open' = open \ {t}
  /\ \/ got[t] = "answer" /\ Goto(t, "bind")
     \/ got[t] = "nameless" /\ Goto(t, "answer")
     \/ got[t] = "failed" /\ Return(t, "failed")
  /\ UNCHANGED <<threadVars, started, named, hurt>>

\* The next message, from either surface, will resume this session.
Bind(t) ==
  /\ pc[t] = "bind"
  /\ stored' = resume[t] \cup {t}
  /\ Goto(t, "answer")
  /\ UNCHANGED <<thread, ledgerVars, named, hurt>>

Answer(t) ==
  /\ pc[t] = "answer"
  /\ thread' = Append(thread, Row("assistant", t))
  /\ Return(t, "answer")
  /\ UNCHANGED <<stored, ledgerVars, named, hurt>>

\* A statement fails, having taken effect or not, and `?` returns the error.
TurnFault(t) ==
  /\ pc[t] \in InTurn \cup {"queued"} /\ pc[t] # "session"
  /\ Free(t)
  /\ Trouble
  /\ hurt' = hurt \cup {t}
  /\ UNCHANGED named
  /\ Return(t, "failed")
  /\ \/ UNCHANGED <<threadVars, ledgerVars>>
     \/ /\ pc[t] = "queued"
        /\ thread' = Append(thread, Row("user", t))
        /\ UNCHANGED <<stored, ledgerVars>>
     \/ /\ pc[t] = "bill"
        /\ started' = [started EXCEPT ![t] = @ + 1]
        /\ open' = open \cup {t}
        /\ UNCHANGED threadVars
     \/ /\ pc[t] = "close"
        /\ open' = open \ {t}
        /\ UNCHANGED <<threadVars, started>>
     \/ /\ pc[t] = "bind"
        /\ stored' = resume[t] \cup {t}
        /\ UNCHANGED <<thread, ledgerVars>>
     \/ /\ pc[t] = "answer"
        /\ thread' = Append(thread, Row("assistant", t))
        /\ UNCHANGED <<stored, ledgerVars>>

TurnStep(t) ==
  Ask(t) \/ Resume(t) \/ Bill(t) \/ Session(t) \/ Close(t) \/ Bind(t) \/ Answer(t)

\* A chat request arrives on the socket.
Say(c) ==
  /\ Serving
  /\ pc[c] = "unsaid"
  /\ Enqueue(c)
  /\ UNCHANGED <<telegramVars, markVars, loopVars, heldVars, runner, proc, told,
                 trouble>>

\* Its answer, or its error, goes back to the terminal.
Respond(c) ==
  /\ pc[c] = "ended"
  /\ told[c] = "nothing"
  /\ Serving
  /\ told' = [told EXCEPT ![c] = got[c]]
  /\ UNCHANGED <<telegramVars, markVars, loopVars, turnVars, runner, proc, trouble>>

-----------------------------------------------------------------------------
(* The update loop: UpdateLoop::poll_once                                   *)

\* Nothing in hand: `where` is "idle", about to poll, or "gone".
Rest(where) == loop' = where /\ at' = 0 /\ upto' = 0
Step(where) == loop' = where /\ UNCHANGED <<at, upto>>

\* A message that reaches the conversation, or anything else: a tap, a stranger,
\* a bot, another chat, an empty text.
Post(kind) ==
  /\ Len(posted) < MaxUpdates
  /\ posted' = Append(posted, kind)
  /\ UNCHANGED <<forgotten, markVars, loopVars, turnVars, runner, proc, told, trouble>>

\* getUpdates(offset) makes Telegram forget everything below the offset, and
\* answers with the rest; the answer may be lost on the way.
Confirm == forgotten' = SetMax(forgotten, offset - 1)

Poll ==
  /\ At("idle")
  /\ Confirm
  /\ forgotten' < Len(posted)
  /\ loop' = "check"
  /\ at' = forgotten' + 1
  /\ upto' = Len(posted)
  /\ UNCHANGED <<posted, markVars, turnVars, runner, proc, told, trouble>>

PollEmpty ==
  /\ At("idle")
  /\ Confirm
  /\ forgotten' = Len(posted)
  /\ UNCHANGED <<posted, markVars, loopVars, turnVars, runner, proc, told, trouble>>

PollFault ==
  /\ At("idle")
  /\ Trouble
  /\ Confirm
  /\ UNCHANGED <<posted, markVars, loopVars, turnVars, runner, proc, told>>

\* Mutant: a redelivered update is handled again.
CheckNothing ==
  /\ At("check")
  /\ Step("mark")
  /\ UNCHANGED <<telegramVars, markVars, turnVars, runner, proc, told, trouble>>

\* Mutant: a redelivered update ends the batch, its offset unwritten.
CheckStops ==
  /\ At("check")
  /\ IF handled >= at THEN Rest("idle") ELSE Step("mark")
  /\ UNCHANGED <<telegramVars, markVars, turnVars, runner, proc, told, trouble>>

\* HandledUpdates::contains: an update already claimed is only stepped over.
Check ==
  /\ At("check")
  /\ IF handled >= at THEN Step("advance") ELSE Step("mark")
  /\ UNCHANGED <<telegramVars, markVars, turnVars, runner, proc, told, trouble>>

\* Mutant: the whole batch is claimed with its first update.
MarkBatch ==
  /\ At("mark")
  /\ handled' = SetMax(handled, upto)
  /\ IF posted[at] = "message"
       THEN Enqueue(at) /\ Step("dispatch")
       ELSE UNCHANGED pc /\ Step("advance")
  /\ UNCHANGED <<telegramVars, offset, heldVars, runner, proc, told,
                 trouble>>

\* Claimed before it is handled. A message then queues for its turn; anything
\* else is dealt with without the conversation.
Mark ==
  /\ At("mark")
  /\ handled' = SetMax(handled, at)
  /\ IF posted[at] = "message"
       THEN Enqueue(at) /\ Step("dispatch")
       ELSE UNCHANGED pc /\ Step("advance")
  /\ UNCHANGED <<telegramVars, offset, heldVars, runner, proc, told,
                 trouble>>

\* The turn is over; its reply is sent, and a send that fails is only logged.
Reply ==
  /\ At("dispatch")
  /\ pc[at] = "ended"
  /\ \/ told' = [told EXCEPT ![at] = got[at]] /\ UNCHANGED trouble
     \/ Trouble /\ UNCHANGED told
  /\ Step("advance")
  /\ UNCHANGED <<telegramVars, markVars, turnVars, runner, proc>>

\* Mutant: the first update of a batch confirms all of it.
AdvanceBatch ==
  /\ At("advance")
  /\ offset' = SetMax(offset, upto + 1)
  /\ \/ at < upto /\ loop' = "check" /\ at' = at + 1 /\ UNCHANGED upto
     \/ at = upto /\ Rest("idle")
  /\ UNCHANGED <<telegramVars, handled, turnVars, runner, proc, told, trouble>>

\* Mutant: the offset is one too high.
AdvanceTwice ==
  /\ At("advance")
  /\ offset' = SetMax(offset, at + 2)
  /\ \/ at < upto /\ loop' = "check" /\ at' = at + 1 /\ UNCHANGED upto
     \/ at = upto /\ Rest("idle")
  /\ UNCHANGED <<telegramVars, handled, turnVars, runner, proc, told, trouble>>

\* The offset is written after the update was dealt with, one by one.
Advance ==
  /\ At("advance")
  /\ offset' = SetMax(offset, at + 1)
  /\ \/ at < upto /\ loop' = "check" /\ at' = at + 1 /\ UNCHANGED upto
     \/ at = upto /\ Rest("idle")
  /\ UNCHANGED <<telegramVars, handled, turnVars, runner, proc, told, trouble>>

\* A statement of the loop fails, having taken effect or not: the rest of the
\* batch is given up, and polled for again after the backoff.
LoopFault ==
  /\ loop \in {"check", "mark", "advance"}
  /\ Trouble
  /\ Rest("idle")
  /\ \/ UNCHANGED markVars
     \/ At("mark") /\ handled' = SetMax(handled, at) /\ UNCHANGED offset
     \/ At("advance") /\ offset' = SetMax(offset, at + 1) /\ UNCHANGED handled
  /\ UNCHANGED <<telegramVars, turnVars, runner, proc, told>>

-----------------------------------------------------------------------------
(* The life of the process                                                  *)

\* Futures dropped where they stand: the lock is released, a session's child is
\* killed, and no row of the database is touched.
Drop(T) ==
  /\ pc' = [t \in Turn |->
              IF t \in T /\ pc[t] # "unsaid" /\ told[t] = "nothing"
                THEN "dropped" ELSE pc[t]]
  /\ resume' = [t \in Turn |-> IF t \in T THEN {} ELSE resume[t]]
  /\ holder' = IF holder \in T THEN Nobody ELSE holder
  /\ UNCHANGED <<threadVars, ledgerVars, got, named, hurt>>

Boot ==
  /\ proc = "down"
  /\ proc' = "up"
  /\ Rest("idle")
  /\ runner' \in BOOLEAN
  /\ UNCHANGED <<telegramVars, markVars, turnVars, told, trouble>>

Crash ==
  /\ proc # "down"
  /\ Trouble
  /\ proc' = "down"
  /\ Rest("gone")
  /\ Drop(Turn)
  /\ UNCHANGED <<telegramVars, markVars, runner, told>>

Sigterm ==
  /\ proc = "up"
  /\ Trouble
  /\ proc' = "stopping"
  /\ UNCHANGED <<telegramVars, markVars, loopVars, turnVars, runner, told>>

\* The loop is dropped in the middle of whatever update it is handling.
PollerStops ==
  /\ proc = "stopping"
  /\ ~At("gone")
  /\ Rest("gone")
  /\ Drop(Update)
  /\ UNCHANGED <<telegramVars, markVars, runner, proc, told, trouble>>

\* Then the socket is closed, and the requests still running are aborted.
ServerCloses ==
  /\ proc = "stopping"
  /\ At("gone")
  /\ proc' = "down"
  /\ Drop(Client)
  /\ UNCHANGED <<telegramVars, markVars, loopVars, runner, told, trouble>>

-----------------------------------------------------------------------------

LoopStep == Poll \/ PollEmpty \/ Check \/ Mark \/ Reply \/ Advance

Elsewhere == UNCHANGED <<telegramVars, markVars, loopVars, runner, proc, told>>
Chatting(t) == TurnStep(t) /\ Elsewhere /\ UNCHANGED trouble
Faulting(t) == TurnFault(t) /\ Elsewhere

Next ==
  \/ LoopStep \/ PollFault \/ LoopFault
  \/ \E kind \in Kind : Post(kind)
  \/ \E t \in Turn : Chatting(t) \/ Faulting(t)
  \/ \E c \in Client : Say(c) \/ Respond(c)
  \/ Boot \/ Crash \/ Sigterm \/ PollerStops \/ ServerCloses

Spec == Init /\ [][Next]_vars

\* launchd restarts the daemon; the loop, a turn past the lock and a shutdown
\* keep going.  Nobody has to write, and nothing has to fail.
FairSpec ==
  /\ Spec
  /\ WF_vars(LoopStep)
  /\ WF_vars(Boot)
  /\ WF_vars(PollerStops \/ ServerCloses)
  /\ \A t \in Turn : WF_vars(Chatting(t))
  /\ \A c \in Client : WF_vars(Respond(c))

-----------------------------------------------------------------------------
(* What must hold                                                           *)

TypeOK ==
  /\ posted \in Seq(Kind) /\ Len(posted) <= MaxUpdates
  /\ forgotten \in 0..MaxUpdates
  /\ offset \in 0..(MaxUpdates + 1)
  /\ handled \in 0..MaxUpdates
  /\ thread \in Seq(RowType)
  /\ stored \subseteq Turn
  /\ started \in [Turn -> Nat]
  /\ open \subseteq Turn
  /\ loop \in LoopPC
  /\ at \in 0..MaxUpdates
  /\ upto \in 0..MaxUpdates
  /\ holder \in Turn \cup {Nobody}
  /\ pc \in [Turn -> TurnPC]
  /\ resume \in [Turn -> SUBSET Turn]
  /\ got \in [Turn -> Got]
  /\ runner \in BOOLEAN
  /\ proc \in {"down", "up", "stopping"}
  /\ told \in [Turn -> Got]
  /\ named \subseteq Turn
  /\ hurt \subseteq Turn
  /\ trouble \in 0..MaxTrouble

\* However often Telegram redelivers a message, and whatever crashes or fails in
\* between, it is charged to the day's sessions at most once.
BilledOnce == \A t \in Turn : started[t] <= 1

\* Telegram is told to forget an update only once it was claimed, so a crash or
\* a failing store never makes it disappear unclaimed.
ForgottenWasClaimed == forgotten <= handled

\* At most once has a price, and this is all of it: each message claimed and
\* never recorded in the thread is the fault of one crash, signal or store fault.
Unrecorded ==
  {n \in 1..handled :
     /\ posted[n] = "message"
     /\ Row("user", n) \notin Rows
     /\ pc[n] # "queued"}

LossIsBounded == Cardinality(Unrecorded) <= trouble

\* A message that arrives during a turn queues: two sessions never resume the
\* same stored session at once.
OneSessionAtATime ==
  \A t, u \in Turn : pc[t] \in InTurn /\ pc[u] \in InTurn => t = u

\* What the thread shows the owner, the model remembers: the stored session has
\* been through every answered turn whose session reported its id.
AnswersAreRemembered ==
  \A t \in named : Row("assistant", t) \in Rows => t \in stored

\* An answered turn was paid for and its `runs` row is closed; an open row is a
\* session in progress, one whose future was dropped, or a store fault.
LedgerIsHonest ==
  /\ \A t \in Turn : Row("assistant", t) \in Rows => started[t] = 1 /\ t \notin open
  /\ \A t \in open : pc[t] \in {"session", "close", "dropped"} \/ t \in hurt

\* "It was not recorded as an answer": true unless the store answered an insert
\* that took effect with an error.
FailureIsTold ==
  \A t \in Turn \ hurt : told[t] = "failed" => Row("assistant", t) \notin Rows

\* The conversation keeps its promise (ThreadPromise).
Promise == INSTANCE ThreadPromise WITH heard <- told

KeepsPromise == Promise!Spec

\* Every update the owner sends is taken up, whatever crashes and fails on the way.
UpdatesAreTakenUp ==
  \A n \in Update : (Len(posted) >= n) ~> (handled >= n)

\* Nobody waits for the lock forever: a queued message is answered, refused, or
\* dropped with the process that queued it.
TurnsEnd == \A t \in Turn : (pc[t] = "queued") ~> (pc[t] \in {"ended", "dropped"})
=============================================================================
