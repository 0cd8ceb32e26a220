---------------------------- MODULE ActionPromise ----------------------------
(***************************************************************************)
(* What the action gate of exec-agent promises its owner, with none of the *)
(* machinery that keeps the promise: an action waits for a decision, a     *)
(* decision is taken once, a granted action is attempted at the connector  *)
(* at most once, and what was decided or concluded is never revisited.     *)
(***************************************************************************)
EXTENDS Naturals

CONSTANT Action

VARIABLES
  phase,      \* where each action stands, as its owner would put it
  attempts    \* how often the connector has been asked to perform it

pvars == <<phase, attempts>>

Phase == {"none", "waiting", "granted", "attempted", "dropped", "done"}

Init ==
  /\ phase = [a \in Action |-> "none"]
  /\ attempts = [a \in Action |-> 0]

Move(from, to) ==
  \E a \in Action :
    /\ phase[a] \in from
    /\ phase' = [phase EXCEPT ![a] = to]
    /\ UNCHANGED attempts

Ask == Move({"none"}, "waiting")
Grant == Move({"waiting"}, "granted")
Conclude == Move({"granted", "attempted"}, "done")

\* Any number of waiting actions may be dropped at once: expiry is one UPDATE.
Drop ==
  \E S \in SUBSET {a \in Action : phase[a] = "waiting"} :
    /\ phase' = [a \in Action |-> IF a \in S THEN "dropped" ELSE phase[a]]
    /\ UNCHANGED attempts

\* The only step that reaches a connector.
Attempt ==
  \E a \in Action :
    /\ phase[a] = "granted"
    /\ phase' = [phase EXCEPT ![a] = "attempted"]
    /\ attempts' = [attempts EXCEPT ![a] = @ + 1]

Next == Ask \/ Grant \/ Drop \/ Attempt \/ Conclude

Spec == Init /\ [][Next]_pvars
=============================================================================
