---------------------------- MODULE ThreadPromise ----------------------------
(***************************************************************************)
(* What the conversation of exec-agent promises its owner, with none of    *)
(* the queueing, sessions and delivery that keep the promise: a thread of  *)
(* questions in which each message is asked once, an answer stands right   *)
(* under the question it answers, nothing is ever taken back, and nobody   *)
(* is told an answer the thread does not hold.                             *)
(***************************************************************************)
EXTENDS Naturals, Sequences

CONSTANT Turn

VARIABLES
  thread,   \* the transcript: rows of role and turn
  heard     \* what the owner has been told about each turn

pvars == <<thread, heard>>

Role == {"user", "assistant"}

Rows == {thread[i] : i \in DOMAIN thread}
Row(r, t) == [role |-> r, turn |-> t]

Init ==
  /\ thread = <<>>
  /\ heard = [t \in Turn |-> "nothing"]

Ask ==
  \E t \in Turn :
    /\ Row("user", t) \notin Rows
    /\ thread' = Append(thread, Row("user", t))
    /\ UNCHANGED heard

\* Only the question at the end of the thread can be answered.
Answer ==
  \E t \in Turn :
    /\ thread # <<>>
    /\ thread[Len(thread)] = Row("user", t)
    /\ thread' = Append(thread, Row("assistant", t))
    /\ UNCHANGED heard

Tell ==
  \E t \in Turn :
    /\ heard[t] = "nothing"
    /\ \/ heard' = [heard EXCEPT ![t] = "answer"] /\ Row("assistant", t) \in Rows
       \/ heard' = [heard EXCEPT ![t] = "unanswered"] /\ Row("user", t) \in Rows
       \/ heard' = [heard EXCEPT ![t] = "failed"]
    /\ UNCHANGED thread

Next == Ask \/ Answer \/ Tell

Spec == Init /\ [][Next]_pvars
=============================================================================
