---------------------------- MODULE RegistryProofs -----------------------------
(***************************************************************************)
(* What TLAPS proves of Registry for every set of connectors and calls and *)
(* any number of children: at most one running child per connector, and    *)
(* one more for each connection that a shutdown overtook.                  *)
(***************************************************************************)
EXTENDS Registry, TLAPS

USE RegistryAssumption
USE DEF cacheVars, childVars, callVars

\* What is cached for a connector was spawned for it.
CacheInv == \A s \in Slot : Usable(s) => home[cached[s]] = s

\* A child that runs and was not told to stop is cached, or being connected to.
KnownInv ==
  \A n \in Child :
    (state[n] \in {"up", "wedged"} /\ n \notin told) =>
      \/ cached[home[n]] = n
      \/ \E c \in Call : pc[c] = "connect" /\ client[c] = n /\ slot[c] = home[n]

\* The gate: whoever connects holds it, and nothing usable is cached meanwhile.
GateInv ==
  \A c \in Call :
    pc[c] = "connect" =>
      /\ holder[slot[c]] = c
      /\ ~Usable(slot[c])
      /\ state[client[c]] \in {"up", "wedged"} => home[client[c]] = slot[c]

ClientInv == \A c \in Call : pc[c] \in {"connect", "call"} => client[c] \in Child

Inv == TypeOK /\ CacheInv /\ KnownInv /\ GateInv /\ ClientInv

USE DEF Child, NoChild, Slot, ChildState, CallPC

\* A slot is named by its parts.
LEMMA SlotParts ==
  ASSUME NEW s \in Slot
  PROVE  s[1] \in Connector /\ s[2] \in 1..MaxRounds
OBVIOUS

LEMMA InvInit == Init => Inv
BY DEF Init, Inv, TypeOK, CacheInv, KnownInv, GateInv, ClientInv, Usable

-----------------------------------------------------------------------------
(* One lemma per kind of step                                               *)

\* A call enters, and finds a client or queues for the gate.
LEMMA EntryKeepsInv ==
  ASSUME Inv, NEW c \in Call,
         (\E k \in Connector : Begin(c, k)) \/ FindClient(c) \/ SpawnFails(c)
  PROVE  Inv'
<1> USE DEF Inv, TypeOK
<1>1. CASE \E k \in Connector : Begin(c, k)
  <2>1. PICK k \in Connector : Begin(c, k)
    BY <1>1
  <2>2. <<k, round>> \in Slot
    OBVIOUS
  <2>3. TypeOK'
    BY <2>1, <2>2 DEF Begin, DropClosed, Moves, Usable
  <2>4. \A s \in Slot : /\ Usable(s)' = Usable(s)
                        /\ Usable(s) => cached'[s] = cached[s]
    BY <2>1, <2>2 DEF Begin, DropClosed, Usable
  <2>5. CacheInv'
    BY <2>1, <2>4 DEF Begin, CacheInv
  <2>6. /\ pc[c] = "idle" /\ pc'[c] \in {"queue", "call"}
        /\ \A d \in Call : d # c => /\ pc'[d] = pc[d] /\ client'[d] = client[d]
                                    /\ slot'[d] = slot[d]
    BY <2>1 DEF Begin, Moves
  <2>7. UNCHANGED <<holder, state, home, told>>
    BY <2>1 DEF Begin
  <2>8. ASSUME NEW m \in Child, NEW s \in Slot, cached[s] = m, state[m] # "closed"
        PROVE  cached'[s] = m
    <3>1. m # NoChild
      OBVIOUS
    <3>2. Usable(s)
      BY <2>8, <3>1 DEF Usable
    <3> QED
      BY <2>4, <2>8, <3>2
  <2>9. KnownInv'
    <3> SUFFICES ASSUME NEW m \in Child, state[m] \in {"up", "wedged"}, m \notin told
                 PROVE  \/ cached'[home[m]] = m
                        \/ \E d \in Call : pc'[d] = "connect" /\ client'[d] = m /\ slot'[d] = home[m]
      BY <2>7 DEF KnownInv
    <3>1. CASE cached[home[m]] = m
      BY <2>8, <3>1
    <3>2. CASE \E d \in Call : pc[d] = "connect" /\ client[d] = m /\ slot[d] = home[m]
      BY <2>6, <3>2
    <3> QED
      BY <3>1, <3>2 DEF KnownInv
  <2>10. GateInv'
    <3> SUFFICES ASSUME NEW d \in Call, pc'[d] = "connect"
                 PROVE  /\ holder[slot'[d]] = d
                        /\ ~Usable(slot[d])'
                        /\ slot'[d] = slot[d]
                        /\ state[client'[d]] \in {"up", "wedged"} =>
                             home[client'[d]] = slot'[d]
      BY <2>7 DEF GateInv, Usable
    <3> QED
      BY <2>4, <2>6 DEF GateInv
  <2>11. pc'[c] = "call" => client'[c] \in Child
    BY <2>1, <2>2 DEF Begin, Moves, Usable
  <2>12. ClientInv'
    BY <2>6, <2>11 DEF ClientInv
  <2> QED
    BY <2>3, <2>5, <2>9, <2>10, <2>12
<1>2. CASE FindClient(c)
  <2>1. TypeOK'
    BY <1>2 DEF FindClient, Moves, Usable
  <2>2. CacheInv' /\ ClientInv'
    BY <1>2 DEF FindClient, Moves, Usable, CacheInv, ClientInv
  <2>3. KnownInv'
    BY <1>2 DEF FindClient, Moves, KnownInv
  <2>4. GateInv'
    BY <1>2 DEF FindClient, Moves, Usable, GateInv
  <2> QED
    BY <2>1, <2>2, <2>3, <2>4
<1>3. CASE SpawnFails(c)
  <2>1. TypeOK'
    BY <1>3 DEF SpawnFails, DropClosed, Ends, Moves, Usable
  <2>2. \A s \in Slot : /\ Usable(s)' = Usable(s)
                        /\ Usable(s) => cached'[s] = cached[s]
    BY <1>3 DEF SpawnFails, DropClosed, Usable
  <2>3. CacheInv'
    BY <1>3, <2>2 DEF SpawnFails, CacheInv
  <2>4. KnownInv'
    BY <1>3 DEF SpawnFails, KnownInv, DropClosed, Ends, Moves, Usable
  <2>5. GateInv' /\ ClientInv'
    BY <1>3, <2>2 DEF SpawnFails, GateInv, ClientInv, Ends, Moves
  <2> QED
    BY <2>1, <2>3, <2>4, <2>5
<1> QED
  BY <1>1, <1>2, <1>3

LEMMA SpawnKeepsInv ==
  ASSUME Inv, NEW c \in Call, NEW n \in Child, Spawn(c, n)
  PROVE  Inv'
<1> USE DEF Inv, TypeOK
<1>1. TypeOK'
  BY DEF Spawn, DropClosed, Moves, Usable
<1>2. \A s \in Slot : /\ Usable(s)' = Usable(s)
                      /\ Usable(s) => cached'[s] = cached[s] /\ cached[s] # n
  BY DEF Spawn, DropClosed, Usable, Forgotten
<1>3. CacheInv'
  <2> SUFFICES ASSUME NEW s \in Slot, Usable(s)'
               PROVE  home'[cached'[s]] = s
    BY DEF CacheInv
  <2>1. Usable(s) /\ cached'[s] = cached[s] /\ cached[s] # n /\ cached[s] \in Child
    BY <1>2 DEF Usable
  <2> QED
    BY <2>1 DEF Spawn, CacheInv
<1>4. \A d \in Call : pc[d] = "connect" => d # c /\ slot[d] # slot[c] /\ client[d] # n
  BY DEF Spawn, GateInv, GateIsFree, Forgotten
<1>5. GateInv'
  <2> SUFFICES ASSUME NEW d \in Call, pc'[d] = "connect"
               PROVE  /\ holder'[slot'[d]] = d
                      /\ ~Usable(slot[d])'
                      /\ slot'[d] = slot[d]
                      /\ state'[client'[d]] \in {"up", "wedged"} => home'[client'[d]] = slot'[d]
    BY DEF GateInv, Spawn, Usable
  <2>1. CASE d = c
    BY <2>1, <1>2 DEF Spawn, Moves
  <2>2. CASE d # c
    BY <2>2, <1>2, <1>4 DEF Spawn, Moves, GateInv, ClientInv
  <2> QED
    BY <2>1, <2>2
<1>6. KnownInv'
  <2> SUFFICES ASSUME NEW m \in Child, state'[m] \in {"up", "wedged"}, m \notin told'
               PROVE  \/ cached'[home'[m]] = m
                      \/ \E d \in Call : pc'[d] = "connect" /\ client'[d] = m /\ slot'[d] = home'[m]
    BY DEF KnownInv
  <2>1. CASE m = n
    BY <2>1 DEF Spawn, Moves
  <2>2. CASE m # n
    <3>1. state'[m] = state[m] /\ home'[m] = home[m] /\ m \notin told
      BY <2>2 DEF Spawn
    <3>2. CASE cached[home[m]] = m
      BY <3>1, <3>2 DEF Spawn, DropClosed, Usable
    <3>3. CASE \E d \in Call : pc[d] = "connect" /\ client[d] = m /\ slot[d] = home[m]
      BY <3>1, <3>3, <1>4 DEF Spawn, Moves
    <3> QED
      BY <3>1, <3>2, <3>3 DEF KnownInv
  <2> QED
    BY <2>1, <2>2
<1>7. ClientInv'
  BY DEF Spawn, ClientInv, Moves
<1> QED
  BY <1>1, <1>3, <1>5, <1>6, <1>7

\* The holder of the gate connects, or gives up.
LEMMA HandshakeKeepsInv ==
  ASSUME Inv, NEW c \in Call, HandshakeDone(c) \/ HandshakeFails(c) \/ HandshakeTimesOut(c)
  PROVE  Inv'
<1> USE DEF Inv, TypeOK
<1>1. /\ pc[c] = "connect" /\ client[c] \in Child /\ slot[c] \in Slot
      /\ \A d \in Call : pc[d] = "connect" /\ d # c => slot[d] # slot[c]
  BY DEF HandshakeDone, HandshakeFails, HandshakeTimesOut, ClientInv, GateInv
<1>2. CASE HandshakeDone(c)
  <2>1. TypeOK' /\ ClientInv'
    BY <1>1, <1>2 DEF HandshakeDone, LeaveGate, Moves, ClientInv
  <2>2. home[client[c]] = slot[c]
    BY <1>1, <1>2 DEF HandshakeDone, GateInv
  <2>3. CacheInv'
    BY <1>1, <1>2, <2>2 DEF HandshakeDone, CacheInv, Usable
  <2>4. GateInv'
    BY <1>1, <1>2 DEF HandshakeDone, GateInv, Usable, LeaveGate, Moves
  <2>5. KnownInv'
    <3> SUFFICES ASSUME NEW m \in Child, state[m] \in {"up", "wedged"}, m \notin told
                 PROVE  \/ cached'[home[m]] = m
                        \/ \E d \in Call : pc'[d] = "connect" /\ client[d] = m /\ slot[d] = home[m]
      BY <1>2 DEF KnownInv, HandshakeDone
    <3>1. CASE m = client[c]
      BY <1>1, <1>2, <2>2, <3>1 DEF HandshakeDone
    <3>2. CASE m # client[c] /\ cached[home[m]] = m
      <4>1. home[m] # slot[c]
        <5>1. Usable(home[m])
          BY <3>2 DEF Usable
        <5> QED
          BY <1>1, <5>1 DEF GateInv
      <4> QED
        BY <1>2, <3>2, <4>1 DEF HandshakeDone
    <3>3. CASE m # client[c] /\ cached[home[m]] # m
      <4>1. PICK d \in Call : pc[d] = "connect" /\ client[d] = m /\ slot[d] = home[m]
        BY <3>3 DEF KnownInv
      <4> QED
        BY <1>2, <3>3, <4>1 DEF HandshakeDone, Moves
    <3> QED
      BY <3>1, <3>2, <3>3
  <2> QED
    BY <2>1, <2>3, <2>4, <2>5
<1>3. CASE HandshakeFails(c) \/ HandshakeTimesOut(c)
  <2>1. /\ state' = [state EXCEPT ![client[c]] = "closed"]
        /\ LeaveGate(c) /\ Ends(c)
        /\ UNCHANGED <<round, cached, home, told, overtaken, trouble>>
    BY <1>3 DEF HandshakeFails, HandshakeTimesOut
  <2>2. TypeOK' /\ ClientInv'
    BY <1>1, <2>1 DEF LeaveGate, Ends, Moves, ClientInv
  <2>3. \A s \in Slot : Usable(s)' => Usable(s)
    BY <1>1, <2>1 DEF Usable
  <2>4. CacheInv'
    BY <2>1, <2>3 DEF CacheInv
  <2>5. GateInv'
    BY <1>1, <2>1, <2>3 DEF GateInv, LeaveGate, Ends, Moves, ClientInv
  <2>6. KnownInv'
    BY <1>1, <2>1 DEF KnownInv, Ends, Moves
  <2> QED
    BY <2>2, <2>4, <2>5, <2>6
<1> QED
  BY <1>2, <1>3

\* A call ends, with or without evicting the client it used.
LEMMA CallKeepsInv ==
  ASSUME Inv, NEW c \in Call, Answered(c) \/ Discard(c) \/ TransportFails(c)
  PROVE  Inv'
<1> USE DEF Inv, TypeOK
<1>1. /\ pc[c] = "call" /\ client[c] \in Child /\ Ends(c)
      /\ UNCHANGED <<round, holder, state, home, overtaken, trouble>>
  BY DEF Answered, Discard, TransportFails, ClientInv
<1>2. \/ UNCHANGED <<cached, told>>
      \/ Evict(c) /\ told' = told \cup {client[c]}
      \/ Evict(c) /\ told' = told /\ state[client[c]] \in {"dead", "closed"}
  BY DEF Answered, Discard, TransportFails
<1>3. /\ cached' \in [Slot -> Child \cup {NoChild}] /\ told' \subseteq Child
      /\ told \subseteq told'
      /\ \A s \in Slot : cached'[s] = cached[s] \/ (cached'[s] = NoChild /\ cached[s] = client[c])
  <2>1. <<slot[c][1], round>> \in Slot
    BY SlotParts
  <2>2. CASE UNCHANGED <<cached, told>>
    BY <2>2
  <2>3. CASE Evict(c)
    BY <1>1, <1>2, <2>1, <2>3 DEF Evict
  <2> QED
    BY <1>2, <2>2, <2>3
<1>4. TypeOK' /\ ClientInv'
  <2>1. /\ pc' \in [Call -> CallPC] /\ client' \in [Call -> Child \cup {NoChild}]
        /\ slot' \in [Call -> Slot]
    BY <1>1 DEF Ends, Moves
  <2>2. TypeOK'
    BY <1>1, <1>3, <2>1
  <2>3. ClientInv'
    BY <1>1 DEF Ends, Moves, ClientInv
  <2> QED
    BY <2>2, <2>3
<1>5. \A s \in Slot : Usable(s)' => Usable(s) /\ cached'[s] = cached[s]
  BY <1>1, <1>3 DEF Usable
<1>6. CacheInv'
  BY <1>1, <1>5 DEF CacheInv
<1>7. GateInv'
  BY <1>1, <1>5 DEF GateInv, Ends, Moves
<1>8. KnownInv'
  <2> SUFFICES ASSUME NEW m \in Child, state[m] \in {"up", "wedged"}, m \notin told'
               PROVE  \/ cached'[home[m]] = m
                      \/ \E d \in Call : pc'[d] = "connect" /\ client'[d] = m /\ slot'[d] = home[m]
    BY <1>1 DEF KnownInv
  <2>1. m \notin told /\ home[m] \in Slot
    BY <1>3
  <2>2. CASE cached[home[m]] = m
    <3>1. CASE cached' = cached
      BY <2>2, <3>1
    <3>2. CASE m # client[c]
      BY <1>3, <2>1, <2>2, <3>2
    <3> QED
      BY <1>2, <3>1, <3>2
  <2>3. CASE \E d \in Call : pc[d] = "connect" /\ client[d] = m /\ slot[d] = home[m]
    BY <1>1, <2>3 DEF Ends, Moves
  <2> QED
    BY <2>1, <2>2, <2>3 DEF KnownInv
<1> QED
  BY <1>4, <1>6, <1>7, <1>8

\* A child falters or is let go of.
LEMMA ChildKeepsInv ==
  ASSUME Inv, NEW n \in Child, Wedge(n) \/ Die(n) \/ LoopEnds(n)
  PROVE  Inv'
<1> USE DEF Inv, TypeOK
<1>1. CASE Wedge(n) \/ Die(n)
  <2>1. /\ state[n] \in {"up", "wedged"} /\ state'[n] \in {"wedged", "dead"}
        /\ state' \in [Child -> ChildState]
        /\ \A m \in Child : m # n => state'[m] = state[m]
        /\ trouble' \in 0..MaxTrouble
        /\ UNCHANGED <<cacheVars, home, told, callVars, overtaken>>
    <3>1. CASE Wedge(n)
      BY <3>1 DEF Wedge
    <3>2. CASE Die(n)
      BY <3>2 DEF Die
    <3> QED
      BY <1>1, <3>1, <3>2
  <2>2. TypeOK' /\ ClientInv'
    BY <2>1 DEF ClientInv
  <2>3. \A s \in Slot : Usable(s)' = Usable(s)
    BY <2>1 DEF Usable
  <2>4. CacheInv'
    BY <2>1, <2>3 DEF CacheInv
  <2>5. KnownInv'
    BY <2>1 DEF KnownInv
  <2>6. GateInv'
    BY <2>1, <2>3 DEF GateInv, ClientInv
  <2> QED
    BY <2>2, <2>4, <2>5, <2>6
<1>2. CASE LoopEnds(n)
  <2>1. TypeOK' /\ ClientInv'
    BY <1>2 DEF LoopEnds, ClientInv
  <2>2. \A s \in Slot : Usable(s)' => Usable(s) /\ cached[s] # n
    BY <1>2 DEF LoopEnds, Usable
  <2>3. CacheInv'
    BY <1>2, <2>2 DEF LoopEnds, CacheInv
  <2>4. GateInv'
    BY <1>2, <2>2 DEF LoopEnds, GateInv, ClientInv
  <2>5. KnownInv'
    <3> SUFFICES ASSUME NEW m \in Child, state'[m] \in {"up", "wedged"}, m \notin told'
                 PROVE  \/ cached[home'[m]] = m
                        \/ \E d \in Call : pc[d] = "connect" /\ client[d] = m /\ slot[d] = home'[m]
      BY <1>2 DEF LoopEnds, KnownInv
    <3>1. m # n /\ state[m] = state'[m] /\ home'[m] = home[m] /\ m \notin told
      BY <1>2 DEF LoopEnds
    <3> QED
      BY <3>1 DEF KnownInv
  <2> QED
    BY <2>1, <2>3, <2>4, <2>5
<1> QED
  BY <1>1, <1>2

LEMMA ShutdownKeepsInv ==
  ASSUME Inv, Shutdown
  PROVE  Inv'
<1> USE DEF Inv, TypeOK
<1>1. TypeOK' /\ ClientInv'
  <2>1. round' \in 1..MaxRounds
    BY DEF Shutdown
  <2>2. \A k \in Connector : <<k, round>> \in Slot
    OBVIOUS
  <2>3. {cached[<<k, round>>] : k \in Connector} \ {NoChild} \subseteq Child
    <3>1. ASSUME NEW x \in {cached[<<k, round>>] : k \in Connector}
          PROVE  x \in Child \cup {NoChild}
      <4>1. PICK k \in Connector : x = cached[<<k, round>>]
        BY <3>1
      <4>2. <<k, round>> \in Slot
        BY <2>2
      <4> QED
        BY <4>1, <4>2
    <3> QED
      BY <3>1
  <2>4. told' \subseteq Child
    BY <2>3 DEF Shutdown
  <2>5. cached' \in [Slot -> Child \cup {NoChild}]
    BY DEF Shutdown
  <2>6. overtaken' \subseteq Slot
    BY DEF Shutdown
  <2>7. UNCHANGED <<holder, state, home, callVars, trouble>>
    BY DEF Shutdown
  <2>8. ClientInv'
    BY <2>7 DEF ClientInv
  <2> QED
    BY <2>1, <2>4, <2>5, <2>6, <2>7, <2>8
<1>2. \A s \in Slot : Usable(s)' => Usable(s) /\ cached'[s] = cached[s]
  BY DEF Shutdown, Usable
<1>3. CacheInv' /\ GateInv'
  BY <1>2 DEF Shutdown, CacheInv, GateInv
<1>4. KnownInv'
  <2> SUFFICES ASSUME NEW m \in Child, state[m] \in {"up", "wedged"}, m \notin told'
               PROVE  \/ cached'[home[m]] = m
                      \/ \E d \in Call : pc[d] = "connect" /\ client[d] = m /\ slot[d] = home[m]
    BY DEF Shutdown, KnownInv
  <2>1. m \notin told /\ home[m] \in Slot
    BY DEF Shutdown
  <2>2. CASE cached[home[m]] = m
    <3>1. home[m] = <<home[m][1], home[m][2]>> /\ home[m][1] \in Connector
      BY <2>1, SlotParts
    <3>2. home[m][2] # round
      <4>1. SUFFICES ASSUME home[m][2] = round PROVE m \in told'
        OBVIOUS
      <4>2. m = cached[<<home[m][1], round>>]
        BY <2>2, <3>1, <4>1
      <4> QED
        <5>1. m \in {cached[<<k, round>>] : k \in Connector} \ {NoChild}
          <6>1. m # NoChild
            OBVIOUS
          <6>2. \E k \in Connector : m = cached[<<k, round>>]
            BY <3>1, <4>2
          <6> QED
            BY <6>1, <6>2
        <5> QED
          BY <5>1 DEF Shutdown
    <3> QED
      BY <2>1, <2>2, <3>2 DEF Shutdown
  <2> QED
    BY <2>1, <2>2 DEF KnownInv
<1> QED
  BY <1>1, <1>3, <1>4

LEMMA InvIsKept == Inv /\ [Next]_vars => Inv'
<1> SUFFICES ASSUME Inv, [Next]_vars PROVE Inv'
  OBVIOUS
<1>1. ASSUME NEW c \in Call, Connects(c) \/ \E k \in Connector : Begin(c, k)
      PROVE  Inv'
  BY <1>1, EntryKeepsInv, SpawnKeepsInv DEF Connects
<1>2. ASSUME NEW c \in Call, Serves(c) PROVE Inv'
  BY <1>2, HandshakeKeepsInv, CallKeepsInv DEF Serves
<1>3. ASSUME NEW n \in Child, Wedge(n) \/ Die(n) \/ LoopEnds(n) PROVE Inv'
  BY <1>3, ChildKeepsInv
<1>4. CASE Shutdown
  BY <1>4, ShutdownKeepsInv
<1>5. CASE UNCHANGED vars
  BY <1>5 DEF vars, Inv, TypeOK, CacheInv, KnownInv, GateInv, ClientInv, Usable
<1> QED
  BY <1>1, <1>2, <1>3, <1>4, <1>5 DEF Next

-----------------------------------------------------------------------------
(* Shutdowns                                                                *)

\* What belongs to an earlier generation belongs to a slot whose connection was
\* overtaken by the shutdown that drained it.
ShutdownInv ==
  /\ \A c \in Call :
       pc[c] \in {"queue", "connect"} => slot[c][2] = round \/ slot[c] \in overtaken
  /\ \A n \in Child :
       (state[n] \in {"up", "wedged"} /\ n \notin told) =>
         home[n][2] = round \/ home[n] \in overtaken

LEMMA ShutdownInvInit == Init => ShutdownInv
BY DEF Init, ShutdownInv

\* Between two shutdowns nobody joins an earlier generation.
LEMMA CallsKeepShutdownInv ==
  ASSUME Inv, ShutdownInv, NEW c \in Call,
         Connects(c) \/ Serves(c) \/ \E k \in Connector : Begin(c, k)
  PROVE  ShutdownInv'
<1> USE DEF Inv, TypeOK
<1>1. UNCHANGED <<round, overtaken>>
  BY DEF Connects, Serves, Begin, FindClient, SpawnFails, Spawn, HandshakeDone,
         HandshakeFails, HandshakeTimesOut, Answered, Discard, TransportFails
<1>2. \A d \in Call : pc'[d] \in {"queue", "connect"} =>
        \/ slot'[d] = slot[d] /\ pc[d] \in {"queue", "connect"}
        \/ slot'[d][2] = round
  <2>1. CASE \E k \in Connector : Begin(c, k)
    BY <2>1 DEF Begin, Moves
  <2>2. CASE Connects(c)
    BY <2>2 DEF Connects, FindClient, SpawnFails, Spawn, Ends, Moves
  <2>3. CASE Serves(c)
    BY <2>3 DEF Serves, HandshakeDone, HandshakeFails, HandshakeTimesOut, Answered, Discard,
                TransportFails, Ends, Moves
  <2> QED
    BY <2>1, <2>2, <2>3
<1>3. ASSUME NEW n \in Child, state'[n] \in {"up", "wedged"}, n \notin told'
      PROVE  home'[n][2] = round \/ home'[n] \in overtaken
  <2>1. CASE \E m \in Child : Spawn(c, m)
    BY <1>3, <2>1 DEF Spawn, ShutdownInv
  <2>2. CASE ~\E m \in Child : Spawn(c, m)
    <3>1. /\ home'[n] = home[n] /\ state[n] \in {"up", "wedged"}
          /\ n \notin told
      <4>1. CASE \E k \in Connector : Begin(c, k)
        BY <1>3, <4>1 DEF Begin
      <4>2. CASE Connects(c)
        BY <1>3, <2>2, <4>2 DEF Connects, FindClient, SpawnFails
      <4>3. CASE Serves(c)
        BY <1>3, <4>3 DEF Serves, HandshakeDone, HandshakeFails, HandshakeTimesOut, Answered,
                          Discard, TransportFails
      <4> QED
        BY <4>1, <4>2, <4>3
    <3> QED
      BY <3>1 DEF ShutdownInv
  <2> QED
    BY <2>1, <2>2
<1> QED
  BY <1>1, <1>2, <1>3 DEF ShutdownInv

\* A shutdown tells the warm clients of its generation; what it misses is a child
\* somebody is connecting to.
LEMMA DrainKeepsShutdownInv ==
  ASSUME Inv, ShutdownInv, Shutdown
  PROVE  ShutdownInv'
<1> USE DEF Inv, TypeOK
<1>1. ASSUME NEW c \in Call, pc[c] \in {"queue", "connect"}
      PROVE  slot[c] \in overtaken'
  <2>1. CASE slot[c] \in overtaken
    BY <2>1 DEF Shutdown
  <2>2. CASE slot[c][2] = round
    BY <1>1, <2>2 DEF Shutdown, Connecting
  <2> QED
    BY <1>1, <2>1, <2>2 DEF ShutdownInv
<1>2. ASSUME NEW n \in Child, state[n] \in {"up", "wedged"}, n \notin told'
      PROVE  home[n] \in overtaken'
  <2>1. CASE home[n] \in overtaken
    BY <2>1 DEF Shutdown
  <2>2. CASE home[n][2] = round
    <3>1. home[n] \in Slot /\ n \notin told /\ n # NoChild
      BY <1>2 DEF Shutdown
    <3>2. home[n] = <<home[n][1], round>> /\ home[n][1] \in Connector
      BY <2>2, <3>1, SlotParts
    <3>3. cached[home[n]] # n
      <4>1. {cached[<<k, round>>] : k \in Connector} \ {NoChild} \subseteq told'
        BY DEF Shutdown
      <4>2. cached[<<home[n][1], round>>] # n
        BY <1>2, <3>1, <3>2, <4>1
      <4> QED
        BY <3>2, <4>2
    <3>4. PICK c \in Call : pc[c] = "connect" /\ slot[c] = home[n]
      BY <1>2, <3>1, <3>3 DEF KnownInv
    <3> QED
      BY <1>1, <3>4
  <2> QED
    BY <1>2, <2>1, <2>2 DEF ShutdownInv, Shutdown
<1> QED
  BY <1>1, <1>2 DEF Shutdown, ShutdownInv

LEMMA ShutdownInvIsKept == Inv /\ ShutdownInv /\ [Next]_vars => ShutdownInv'
<1> SUFFICES ASSUME Inv, ShutdownInv, [Next]_vars PROVE ShutdownInv'
  OBVIOUS
<1>1. ASSUME NEW c \in Call, Connects(c) \/ Serves(c) \/ \E k \in Connector : Begin(c, k)
      PROVE  ShutdownInv'
  BY <1>1, CallsKeepShutdownInv
<1>2. ASSUME NEW n \in Child, Wedge(n) \/ Die(n) \/ LoopEnds(n) PROVE ShutdownInv'
  BY <1>2 DEF Wedge, Die, LoopEnds, ShutdownInv, Inv, TypeOK
<1>3. CASE Shutdown
  BY <1>3, DrainKeepsShutdownInv
<1>4. CASE UNCHANGED vars
  BY <1>4 DEF vars, ShutdownInv
<1> QED
  BY <1>1, <1>2, <1>3, <1>4 DEF Next

\* Two running children of one slot are the same.
LEMMA OnePerSlot ==
  ASSUME Inv, NEW k \in Connector, NEW m \in Running(k), NEW n \in Running(k),
         home[m] = home[n]
  PROVE  m = n
<1> DEFINE s == home[m]
<1>1. s \in Slot
  BY DEF Running, Inv, TypeOK
<1>2. \A x \in {m, n} :
        \/ cached[s] = x /\ Usable(s)
        \/ \E c \in Call : pc[c] = "connect" /\ client[c] = x /\ slot[c] = s /\ holder[s] = c
                           /\ ~Usable(s)
  <2> SUFFICES ASSUME NEW x \in {m, n}
               PROVE  \/ cached[s] = x /\ Usable(s)
                      \/ \E c \in Call : /\ pc[c] = "connect" /\ client[c] = x /\ slot[c] = s
                                         /\ holder[s] = c /\ ~Usable(s)
    OBVIOUS
  <2>1. x \in Child /\ state[x] \in {"up", "wedged"} /\ x \notin told /\ home[x] = s
    BY DEF Running
  <2> QED
    BY <2>1 DEF Inv, KnownInv, GateInv, Usable
<1> QED
  BY <1>2

LEMMA InvIsEnough == Inv /\ ShutdownInv => OneLiveClient
<1> SUFFICES ASSUME Inv, ShutdownInv, NEW k \in Connector,
                    NEW m \in Running(k), NEW n \in Running(k), m # n
             PROVE  home[m] # home[n] /\ {home[m], home[n]} \cap overtaken # {}
  BY DEF OneLiveClient
<1>1. home[m] # home[n]
  BY OnePerSlot
<1>2. \A x \in {m, n} : /\ home[x] = <<k, home[x][2]>>
                        /\ home[x][2] = round \/ home[x] \in overtaken
  <2> SUFFICES ASSUME NEW x \in {m, n}
               PROVE  /\ home[x] = <<k, home[x][2]>>
                      /\ home[x][2] = round \/ home[x] \in overtaken
    OBVIOUS
  <2>1. /\ x \in Child /\ state[x] \in {"up", "wedged"} /\ x \notin told
        /\ home[x][1] = k /\ home[x] \in Slot
    BY DEF Running, Inv, TypeOK
  <2> QED
    BY <2>1 DEF ShutdownInv
<1> QED
  BY <1>1, <1>2

-----------------------------------------------------------------------------

\* The registry keeps to the types it declares (Registry::new, client_for, evict).
THEOREM TypeIsKept == Spec => []TypeOK
<1>1. Inv => TypeOK
  BY DEF Inv
<1> HIDE DEF Inv
<1> QED
  BY InvInit, InvIsKept, <1>1, PTL DEF Spec

\* However calls race for a client, fail late or give up, two children of one
\* connector that run and were not told to stop are of different generations, and
\* one of them of a slot that a shutdown drained during a connection (client_for,
\* evict, shutdown).
THEOREM OneLiveClientHolds == Spec => []OneLiveClient
<1>1. Init => Inv /\ ShutdownInv
  BY InvInit, ShutdownInvInit
<1>2. Inv /\ ShutdownInv /\ [Next]_vars => (Inv /\ ShutdownInv)'
  BY InvIsKept, ShutdownInvIsKept
<1> HIDE DEF Inv
<1> QED
  BY <1>1, <1>2, InvIsEnough, PTL DEF Spec
=============================================================================
