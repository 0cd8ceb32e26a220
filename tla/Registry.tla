------------------------------- MODULE Registry --------------------------------
(***************************************************************************)
(* The daemon's side of its connectors: one lazily spawned child process   *)
(* and one warm client per connector, shared by every call, thrown away    *)
(* when its transport dies or wedges and kept when a call is merely slow.  *)
(*                                                                         *)
(* A step is one access to a cache or a lock, or one event of a child.     *)
(* Any number of calls race for a client, and a call may hold on to one    *)
(* that was evicted and replaced while it waited.                          *)
(***************************************************************************)
EXTENDS Integers, FiniteSets

CONSTANTS
  Connector,
  Call,          \* calls in flight at one time
  NoCall,        \* nobody holds the gate
  MaxChildren,   \* bound: clients in use at one time; past it a spawn fails
  MaxRounds,     \* bound: 1 + the number of shutdowns
  MaxTrouble,    \* bound: children that wedge or die
  Steady         \* the connector whose callers are promised an answer

Child == 1..MaxChildren
NoChild == 0
Slot == Connector \X (1..MaxRounds)

ASSUME RegistryAssumption ==
  /\ NoCall \notin Call
  /\ MaxChildren \in Nat /\ MaxRounds \in Nat \ {0} /\ MaxTrouble \in Nat
  /\ Steady \in Connector

VARIABLES
  round,    \* the generation of `slots`: a shutdown drains the map
  cached,   \* Slot::client
  holder,   \* the call that holds Slot::connecting
  state,    \* of each child process and the service loop that talks to it
  home,     \* the slot a child was spawned for
  told,     \* clients that were cancelled and still run
  pc, slot, client,
  overtaken,  \* history: slots drained while a call was connecting through them
  trouble

cacheVars == <<round, cached, holder>>
childVars == <<state, home, told>>
callVars == <<pc, slot, client>>
vars == <<cacheVars, childVars, callVars, overtaken, trouble>>

ChildState == {"up", "wedged", "dead", "closed"}
CallPC == {"idle", "queue", "connect", "call"}

Init ==
  /\ round = 1
  /\ cached = [s \in Slot |-> NoChild]
  /\ holder = [s \in Slot |-> NoCall]
  /\ state = [n \in Child |-> "closed"]
  /\ home = [n \in Child |-> <<Steady, 1>>]
  /\ told = {}
  /\ pc = [c \in Call |-> "idle"]
  /\ slot = [c \in Call |-> <<Steady, 1>>]
  /\ client = [c \in Call |-> NoChild]
  /\ overtaken = {}
  /\ trouble = 0

Moves(c, p) == pc' = [pc EXCEPT ![c] = p]

\* A call returns, with an answer or an error, and forgets its client.
Ends(c) ==
  /\ Moves(c, "idle")
  /\ slot' = [slot EXCEPT ![c] = <<Steady, 1>>]
  /\ client' = [client EXCEPT ![c] = NoChild]

-----------------------------------------------------------------------------
(* client_for: the cached client, or a new one                              *)

\* Slot::cached: a client whose loop has ended does not count, and is dropped.
Usable(s) == cached[s] # NoChild /\ state[cached[s]] # "closed"
DropClosed(s) == cached' = [cached EXCEPT ![s] = IF Usable(s) THEN @ ELSE NoChild]

Begin(c, k) ==
  /\ pc[c] = "idle"
  /\ slot' = [slot EXCEPT ![c] = <<k, round>>]
  /\ IF Usable(<<k, round>>)
     THEN Moves(c, "call") /\ client' = [client EXCEPT ![c] = cached[<<k, round>>]]
     ELSE Moves(c, "queue") /\ client' = [client EXCEPT ![c] = NoChild]
  /\ DropClosed(<<k, round>>)
  /\ UNCHANGED <<round, holder, childVars, overtaken, trouble>>

\* Mutant: one gate for the whole registry.
GateOfAll(s) == \A t \in Slot : holder[t] = NoCall

GateIsFree(s) == holder[s] = NoCall

\* Someone else may have connected while this call waited for the gate.
FindClient(c) ==
  /\ pc[c] = "queue"
  /\ GateIsFree(slot[c])
  /\ Usable(slot[c])
  /\ client' = [client EXCEPT ![c] = cached[slot[c]]]
  /\ Moves(c, "call")
  /\ UNCHANGED <<cacheVars, childVars, slot, overtaken, trouble>>

\* No handle on it is left.
Forgotten(n) ==
  /\ state[n] = "closed"
  /\ \A s \in Slot : cached[s] # n
  /\ \A c \in Call : client[c] # n

Spawn(c, n) ==
  /\ pc[c] = "queue"
  /\ GateIsFree(slot[c])
  /\ ~Usable(slot[c])
  /\ Forgotten(n)
  /\ \A m \in 1..n-1 : ~Forgotten(m)
  /\ state' = [state EXCEPT ![n] = "up"]
  /\ home' = [home EXCEPT ![n] = slot[c]]
  /\ client' = [client EXCEPT ![c] = n]
  /\ holder' = [holder EXCEPT ![slot[c]] = c]
  /\ DropClosed(slot[c])
  /\ Moves(c, "connect")
  /\ UNCHANGED <<round, told, slot, overtaken, trouble>>

\* The manifest's command is missing, or the process does not start.
SpawnFails(c) ==
  /\ pc[c] = "queue"
  /\ GateIsFree(slot[c])
  /\ ~Usable(slot[c])
  /\ DropClosed(slot[c])
  /\ Ends(c)
  /\ UNCHANGED <<round, holder, childVars, overtaken, trouble>>

LeaveGate(c) == holder' = [holder EXCEPT ![slot[c]] = NoCall]

HandshakeDone(c) ==
  /\ pc[c] = "connect"
  /\ state[client[c]] = "up"
  /\ cached' = [cached EXCEPT ![slot[c]] = client[c]]
  /\ LeaveGate(c)
  /\ Moves(c, "call")
  /\ UNCHANGED <<round, childVars, slot, client, overtaken, trouble>>

\* A connection that fails is not cached: the next call tries again.
HandshakeFails(c) ==
  /\ pc[c] = "connect"
  /\ state[client[c]] = "dead"
  /\ state' = [state EXCEPT ![client[c]] = "closed"]
  /\ LeaveGate(c)
  /\ Ends(c)
  /\ UNCHANGED <<round, cached, home, told, overtaken, trouble>>

\* The child is killed before the connection is given up.
HandshakeTimesOut(c) ==
  /\ pc[c] = "connect"
  /\ state' = [state EXCEPT ![client[c]] = "closed"]
  /\ LeaveGate(c)
  /\ Ends(c)
  /\ UNCHANGED <<round, cached, home, told, overtaken, trouble>>

-----------------------------------------------------------------------------
(* call and list_tools                                                      *)

\* An answer, or rmcp's own deadline, which cancels the request: either way the
\* client stays as it is.
Answered(c) ==
  /\ pc[c] = "call"
  /\ state[client[c]] = "up"
  /\ Ends(c)
  /\ UNCHANGED <<cacheVars, childVars, overtaken, trouble>>

\* Mutant: whatever client is cached is dropped.
EvictAny(c) == cached' = [cached EXCEPT ![<<slot[c][1], round>>] = NoChild]

\* The slot is looked up again, and emptied only if it still points here.
Evict(c) ==
  cached' = [cached EXCEPT ![<<slot[c][1], round>>] =
               IF @ = client[c] THEN NoChild ELSE @]

\* The backstop of a call fires when the transport takes nothing more; the only
\* deadline of tools/list does so for a connector that is slow as well.
Discard(c) ==
  /\ pc[c] = "call"
  /\ state[client[c]] \in {"wedged", "up"}
  /\ Evict(c)
  /\ told' = told \cup {client[c]}
  /\ Ends(c)
  /\ UNCHANGED <<round, holder, state, home, overtaken, trouble>>

TransportFails(c) ==
  /\ pc[c] = "call"
  /\ state[client[c]] \in {"dead", "closed"}
  /\ Evict(c)
  /\ Ends(c)
  /\ UNCHANGED <<round, holder, childVars, overtaken, trouble>>

-----------------------------------------------------------------------------
(* The children, and shutdown                                               *)

Wedge(n) ==
  /\ state[n] = "up"
  /\ state' = [state EXCEPT ![n] = "wedged"]
  /\ trouble < MaxTrouble
  /\ trouble' = trouble + 1
  /\ UNCHANGED <<cacheVars, home, told, callVars, overtaken>>

Die(n) ==
  /\ state[n] \in {"up", "wedged"}
  /\ state' = [state EXCEPT ![n] = "dead"]
  /\ trouble < MaxTrouble
  /\ trouble' = trouble + 1
  /\ UNCHANGED <<cacheVars, home, told, callVars, overtaken>>

\* A client notices that its child is gone, or that it was cancelled, which
\* takes the child with it.
LoopEnds(n) ==
  /\ state[n] = "dead" \/ n \in told
  /\ state' = [state EXCEPT ![n] = "closed"]
  /\ told' = told \ {n}
  /\ home' = [home EXCEPT ![n] = <<Steady, 1>>]
  /\ UNCHANGED <<cacheVars, callVars, overtaken, trouble>>

\* Calls that have looked their slot up and have no client yet.
Connecting(s) == \E c \in Call : slot[c] = s /\ pc[c] \in {"queue", "connect"}

\* The map is drained and every warm client cancelled.
Shutdown ==
  /\ round < MaxRounds
  /\ round' = round + 1
  /\ told' = told \cup ({cached[<<k, round>>] : k \in Connector} \ {NoChild})
  /\ cached' = [s \in Slot |-> IF s[2] = round THEN NoChild ELSE cached[s]]
  /\ overtaken' = overtaken \cup {s \in Slot : s[2] = round /\ Connecting(s)}
  /\ UNCHANGED <<holder, state, home, callVars, trouble>>

Connects(c) == FindClient(c) \/ SpawnFails(c) \/ \E n \in Child : Spawn(c, n)

Serves(c) ==
  \/ HandshakeDone(c) \/ HandshakeFails(c) \/ HandshakeTimesOut(c)
  \/ Answered(c) \/ Discard(c) \/ TransportFails(c)

Next ==
  \/ \E c \in Call :
       Connects(c) \/ Serves(c) \/ \E k \in Connector : Begin(c, k)
  \/ \E n \in Child : Wedge(n) \/ Die(n) \/ LoopEnds(n)
  \/ Shutdown

Spec == Init /\ [][Next]_vars

\* Only the calls to one connector are run: the others may hang at any step.
\* Deadlines pass, and the gate is a fair lock.
FairSpec ==
  /\ Spec
  /\ \A c \in Call :
       /\ SF_vars(slot[c][1] = Steady /\ Connects(c))
       /\ WF_vars(slot[c][1] = Steady /\ Serves(c))

-----------------------------------------------------------------------------
(* Properties                                                               *)

TypeOK ==
  /\ round \in 1..MaxRounds
  /\ cached \in [Slot -> Child \cup {NoChild}]
  /\ holder \in [Slot -> Call \cup {NoCall}]
  /\ state \in [Child -> ChildState]
  /\ home \in [Child -> Slot]
  /\ told \subseteq Child
  /\ pc \in [Call -> CallPC] /\ slot \in [Call -> Slot]
  /\ client \in [Call -> Child \cup {NoChild}]
  /\ overtaken \subseteq Slot
  /\ trouble \in 0..MaxTrouble

\* A connector has at most one child that runs and has not been told to stop,
\* however its calls race, fail late or give up.  The one exception is a shutdown
\* that overtakes a connection: the slot it drained may end up with a child of its
\* own, one per such slot, and with none if it was idle or had a client by then.
Running(k) ==
  {n \in Child : home[n][1] = k /\ state[n] \in {"up", "wedged"} /\ n \notin told}
OneLiveClient ==
  \A k \in Connector : \A m, n \in Running(k) :
    m # n => home[m] # home[n] /\ {home[m], home[n]} \cap overtaken # {}

\* A slow or wedged connector delays nobody but its own callers: a call to
\* another one ends, even if nothing of the first ever moves again.
NeighboursAreServed ==
  \A c \in Call :
    (pc[c] # "idle" /\ slot[c][1] = Steady) ~> pc[c] = "idle"
=============================================================================
