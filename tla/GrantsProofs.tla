----------------------------- MODULE GrantsProofs ------------------------------
(***************************************************************************)
(* What TLAPS proves of Grants for any number of processes and requests.   *)
(* The refresh token on disk is never one the provider has retired, unless *)
(* its successor is about to be written, something failed, or the owner    *)
(* withdrew the grant.  A renewal is shared by all who waited for it; a    *)
(* grant refused is not asked about again; and an access token retired     *)
(* before its time fails no request.                                       *)
(***************************************************************************)
EXTENDS Grants, TLAPS

USE GrantsAssumption
USE DEF fileVars, memoryVars, requestVars, providerVars, historyVars, None

\* The part of the types the argument needs: tokens are issued in order.
Typed ==
  /\ minted \in Nat \ {0}
  /\ goodR \in SUBSET (1..minted)
  /\ storedR \in 0..minted
  /\ consent \in 0..minted
  /\ pc \in [Request -> RequestPC]
  /\ heldR \in [Request -> 0..minted] /\ newR \in [Request -> 0..minted]
  /\ trouble \in Nat /\ revoked \in BOOLEAN /\ style \in Style

Calm == ~revoked /\ trouble = 0

\* What is about to be written is good ...
InHandInv == \A q \in Request : pc[q] = "save" => newR[q] \in goodR

\* ... and, where tokens are spent by being presented, nobody else has it.
OwnInv ==
  \A q \in Request :
    (pc[q] = "save" /\ Rotates) =>
      /\ storedR # newR[q]
      /\ \A r \in Request : pc[r] \in {"refresh", "save"} => heldR[r] # newR[q]
      /\ \A r \in Request \ {q} : pc[r] = "save" => newR[r] # newR[q]

ConsentInv ==
  consent # None =>
    /\ consent \in goodR /\ storedR # consent
    /\ \A r \in Request : pc[r] \in {"refresh", "save"} => heldR[r] # consent
    /\ \A r \in Request : pc[r] = "save" => newR[r] # consent

Kept == storedR \in goodR \/ \E q \in Request : pc[q] = "save" /\ heldR[q] = storedR

Inv == Typed /\ (Calm => InHandInv /\ OwnInv /\ ConsentInv /\ Kept)

LEMMA InvInit == Init => Inv
<1> SUFFICES ASSUME Init PROVE Inv
  OBVIOUS
<1>1. style \in Style
  BY DEF Init
<1>2. revoked = FALSE
  BY DEF Init
<1>3. Typed
  <2>1. minted = 1 /\ goodR = {1} /\ storedR = 1 /\ consent = 0 /\ trouble = 0
    BY DEF Init
  <2>2. minted \in Nat \ {0} /\ goodR \in SUBSET (1..minted) /\ storedR \in 0..minted
    BY <2>1
  <2>3. /\ pc \in [Request -> RequestPC]
        /\ heldR \in [Request -> 0..minted] /\ newR \in [Request -> 0..minted]
    BY <2>1 DEF Init, RequestPC
  <2>4. consent \in 0..minted /\ trouble \in Nat
    BY <2>1
  <2>5. revoked \in BOOLEAN
    BY <1>2
  <2> HIDE DEF None, RequestPC, Style
  <2> QED
    BY <1>1, <2>2, <2>3, <2>4, <2>5, Zenon DEF Typed
<1>4. InHandInv /\ OwnInv /\ ConsentInv /\ Kept
  BY DEF Init, InHandInv, OwnInv, ConsentInv, Kept
<1> QED
  BY <1>3, <1>4 DEF Inv

\* A step that leaves the tokens alone, and in which requests outside "save" may
\* move, but not into a renewal.
Quiet ==
  /\ style' = style /\ storedR' = storedR /\ minted' = minted /\ goodR' = goodR
  /\ consent' = consent
  /\ pc' \in [Request -> RequestPC]
  /\ heldR' \in [Request -> 0..minted] /\ newR' \in [Request -> 0..minted]
  /\ trouble' \in Nat /\ revoked' \in BOOLEAN
  /\ Calm' => Calm
  /\ \A q \in Request :
       \/ pc'[q] = pc[q] /\ heldR'[q] = heldR[q] /\ newR'[q] = newR[q]
       \/ (Calm' => pc[q] # "save") /\ pc'[q] \notin {"refresh", "save"}

LEMMA QuietKeepsInv == Inv /\ Quiet => Inv'
<1> SUFFICES ASSUME Inv, Quiet PROVE Inv'
  OBVIOUS
<1>1. Typed'
  BY DEF Inv, Typed, Quiet
<1>2. ASSUME Calm' PROVE InHandInv' /\ OwnInv' /\ ConsentInv' /\ Kept'
  <2>1. Calm /\ InHandInv /\ OwnInv /\ ConsentInv /\ Kept
    BY <1>2 DEF Inv, Quiet
  <2>2. \A q \in Request :
          /\ pc'[q] \in {"refresh", "save"} =>
               pc'[q] = pc[q] /\ heldR'[q] = heldR[q] /\ newR'[q] = newR[q]
          /\ pc[q] = "save" =>
               pc'[q] = pc[q] /\ heldR'[q] = heldR[q] /\ newR'[q] = newR[q]
    BY <1>2 DEF Quiet
  <2>3. UNCHANGED <<style, storedR, goodR, consent>>
    BY DEF Quiet
  <2>4. InHandInv' /\ Kept'
    BY <2>1, <2>2, <2>3 DEF InHandInv, Kept
  <2>5. OwnInv'
    BY <2>1, <2>2, <2>3 DEF OwnInv, Rotates
  <2>6. ConsentInv'
    BY <2>1, <2>2, <2>3 DEF ConsentInv
  <2> QED
    BY <2>4, <2>5, <2>6
<1> QED
  BY <1>1, <1>2 DEF Inv

-----------------------------------------------------------------------------
(* Steps that are quiet                                                     *)

LEMMA RequestStepsAreQuiet ==
  ASSUME Inv, NEW q \in Request,
         \/ Start(q) \/ Reuse(q) \/ ReplayRefusal(q) \/ Unreadable(q) \/ Unreachable(q)
         \/ Refused(q) \/ SaveFails(q) \/ Answered(q) \/ Unauthorized(q) \/ RefusedTwice(q)
  PROVE  Quiet
<1> USE DEF Inv, Typed, RequestPC
<1>1. CASE Start(q) \/ Reuse(q) \/ Unauthorized(q)
  BY <1>1 DEF Start, Reuse, Unauthorized, Moves, NoTrouble, Quiet, Calm
<1>2. CASE ReplayRefusal(q) \/ Answered(q) \/ RefusedTwice(q) \/ Refused(q)
  <2>1. /\ pc[q] # "save" /\ \E p \in {"idle", "failed"} : Ends(q, p)
        /\ UNCHANGED <<style, storedR, minted, goodR, consent, trouble, revoked>>
    BY <1>2 DEF ReplayRefusal, Answered, RefusedTwice, Refused, NoTrouble
  <2> QED
    BY <2>1 DEF Ends, Moves, Forgets, Quiet, Calm
<1>3. CASE Unreadable(q) \/ Unreachable(q) \/ SaveFails(q)
  <2>1. /\ Ends(q, "failed") /\ trouble' = trouble + 1
        /\ UNCHANGED <<style, storedR, minted, goodR, consent, revoked>>
    BY <1>3 DEF Unreadable, Unreachable, SaveFails, Trouble
  <2> QED
    BY <2>1 DEF Ends, Moves, Forgets, Quiet, Calm
<1> QED
  BY <1>1, <1>2, <1>3

LEMMA ProcessStepsAreQuiet ==
  ASSUME Inv, NEW p \in Process, Launch(p) \/ Exit(p)
  PROVE  Quiet
<1> USE DEF Inv, Typed, RequestPC
<1>1. CASE Launch(p)
  BY <1>1 DEF Launch, NoTrouble, Quiet, Calm
<1>2. CASE Exit(p)
  <2>1. /\ trouble' \in Nat
        /\ Calm' => Calm
        /\ Calm' => \A q \in Request : Of[q] = p => pc[q] # "save"
    BY <1>2 DEF Exit, Trouble, NoTrouble, Calm
  <2>2. \A q \in Request :
          \/ pc'[q] = pc[q] /\ heldR'[q] = heldR[q] /\ newR'[q] = newR[q]
          \/ Of[q] = p /\ pc'[q] = "idle" /\ heldR'[q] = 0 /\ newR'[q] = 0
    BY <1>2 DEF Exit
  <2>3. /\ pc' \in [Request -> RequestPC]
        /\ heldR' \in [Request -> 0..minted] /\ newR' \in [Request -> 0..minted]
    BY <1>2 DEF Exit
  <2>4. UNCHANGED <<style, storedR, minted, goodR, consent, revoked>>
    BY <1>2 DEF Exit
  <2> QED
    <3>1. revoked' \in BOOLEAN
      BY <2>4
    <3>2. \A q \in Request :
            \/ pc'[q] = pc[q] /\ heldR'[q] = heldR[q] /\ newR'[q] = newR[q]
            \/ (Calm' => pc[q] # "save") /\ pc'[q] \notin {"refresh", "save"}
      BY <2>1, <2>2
    <3>3. /\ style' = style /\ storedR' = storedR /\ minted' = minted /\ goodR' = goodR
          /\ consent' = consent
      BY <2>4
    <3> HIDE DEF Inv, Typed, RequestPC
    <3> QED
      BY <2>1, <2>3, <3>1, <3>2, <3>3, Zenon DEF Quiet
<1> QED
  BY <1>1, <1>2

LEMMA WorldStepsAreQuiet ==
  ASSUME Inv, Age \/ \E a \in Token : Retire(a)
  PROVE  Quiet
BY DEF Inv, Typed, Age, Retire, NoTrouble, Quiet, Calm

-----------------------------------------------------------------------------
(* Steps that touch the tokens                                              *)

LEMMA TakeGateKeepsInv ==
  ASSUME Inv, NEW q \in Request, TakeGate(q)
  PROVE  Inv'
<1>1. /\ pc[q] = "queue" /\ pc' = [pc EXCEPT ![q] = "refresh"]
      /\ heldR' = [heldR EXCEPT ![q] = storedR]
      /\ UNCHANGED <<style, storedR, minted, goodR, consent, newR, trouble, revoked>>
  BY DEF TakeGate, Moves, NoTrouble
<1>2. Typed'
  BY <1>1 DEF Inv, Typed, RequestPC
<1>3. ASSUME Calm' PROVE InHandInv' /\ OwnInv' /\ ConsentInv' /\ Kept'
  <2>1. InHandInv /\ OwnInv /\ ConsentInv /\ Kept
    BY <1>1, <1>3 DEF Inv, Calm
  <2>2. pc \in [Request -> RequestPC] /\ heldR \in [Request -> 0..minted]
    BY DEF Inv, Typed
  <2>3. InHandInv' /\ Kept'
    BY <1>1, <2>1, <2>2 DEF InHandInv, Kept
  <2>4. OwnInv'
    BY <1>1, <2>1, <2>2 DEF OwnInv, Rotates
  <2>5. ConsentInv'
    BY <1>1, <2>1, <2>2 DEF ConsentInv
  <2> QED
    BY <2>3, <2>4, <2>5
<1> QED
  BY <1>2, <1>3 DEF Inv

\* The step that spends a token.
LEMMA RenewedKeepsInv ==
  ASSUME Inv, NEW q \in Request, Renewed(q)
  PROVE  Inv'
<1> DEFINE n == minted + 1
<1>1. /\ pc[q] = "refresh" /\ pc' = [pc EXCEPT ![q] = "save"]
      /\ heldR[q] \in goodR /\ minted' = n
      /\ goodR' = IF Rotates THEN (goodR \ {heldR[q]}) \cup {n} ELSE goodR
      /\ newR' = [newR EXCEPT ![q] = IF Rotates THEN n ELSE heldR[q]]
      /\ UNCHANGED <<style, storedR, consent, heldR, trouble, revoked>>
  BY DEF Renewed, Issue, Moves, NoTrouble
<1>2. /\ minted \in Nat /\ n \in Nat /\ n > minted
      /\ pc \in [Request -> RequestPC] /\ newR \in [Request -> 0..minted]
      /\ heldR \in [Request -> 0..minted]
      /\ storedR \in 0..minted /\ consent \in 0..minted /\ goodR \in SUBSET (1..minted)
  BY DEF Inv, Typed
<1>3. Typed'
  <2>1. 0..minted \subseteq 0..n /\ 1..minted \subseteq 1..n /\ n \in 0..n /\ n \in 1..n
    BY <1>2
  <2>2. heldR' \in [Request -> 0..minted'] /\ newR' \in [Request -> 0..minted']
    BY <1>1, <1>2, <2>1
  <2>3. goodR' \in SUBSET (1..minted')
    BY <1>1, <1>2, <2>1
  <2> QED
    BY <1>1, <1>2, <2>1, <2>2, <2>3 DEF Inv, Typed, RequestPC
<1>4. ASSUME Calm' PROVE InHandInv' /\ OwnInv' /\ ConsentInv' /\ Kept'
  <2>1. InHandInv /\ OwnInv /\ ConsentInv /\ Kept
    BY <1>1, <1>4 DEF Inv, Calm
  <2>2. /\ \A r \in Request : heldR[r] # n /\ newR[r] # n
        /\ storedR # n /\ consent # n
    BY <1>2
  <2>3. \A r \in Request : r # q => newR'[r] = newR[r] /\ pc'[r] = pc[r]
    BY <1>1
  <2>4. newR'[q] = (IF Rotates THEN n ELSE heldR[q]) /\ pc'[q] = "save"
    BY <1>1, <1>2
  <2>5. InHandInv'
    <3> SUFFICES ASSUME NEW r \in Request, pc'[r] = "save" PROVE newR'[r] \in goodR'
      BY DEF InHandInv
    <3>1. CASE r = q
      BY <1>1, <2>4, <3>1
    <3>2. CASE r # q
      <4>1. pc[r] = "save" /\ newR'[r] = newR[r] /\ newR[r] \in goodR
        BY <2>1, <2>3, <3>2 DEF InHandInv
      <4>2. Rotates => newR[r] # heldR[q]
        BY <1>1, <2>1, <4>1 DEF OwnInv
      <4> QED
        BY <1>1, <4>1, <4>2
    <3> QED
      BY <3>1, <3>2
  <2>6. OwnInv'
    <3> SUFFICES ASSUME NEW r \in Request, pc'[r] = "save", Rotates
                 PROVE  /\ storedR # newR'[r]
                        /\ \A x \in Request : pc'[x] \in {"refresh", "save"} => heldR[x] # newR'[r]
                        /\ \A x \in Request \ {r} : pc'[x] = "save" => newR'[x] # newR'[r]
      BY <1>1 DEF OwnInv, Rotates
    <3>1. CASE r = q
      BY <2>2, <2>3, <2>4, <3>1
    <3>2. CASE r # q
      <4>1. pc[r] = "save" /\ newR'[r] = newR[r]
        BY <2>3, <3>2
      <4>2. \A x \in Request : pc'[x] \in {"refresh", "save"} => pc[x] \in {"refresh", "save"}
        BY <1>1, <2>3
      <4>3. \A x \in Request \ {r} : pc'[x] = "save" => newR'[x] # newR[r]
        BY <2>1, <2>2, <2>3, <2>4, <4>1 DEF OwnInv
      <4> QED
        BY <2>1, <4>1, <4>2, <4>3 DEF OwnInv
    <3> QED
      BY <3>1, <3>2
  <2>7. ConsentInv'
    <3> SUFFICES ASSUME consent # None
                 PROVE  /\ consent \in goodR' /\ storedR # consent
                        /\ \A r \in Request : pc'[r] \in {"refresh", "save"} => heldR[r] # consent
                        /\ \A r \in Request : pc'[r] = "save" => newR'[r] # consent
      BY <1>1 DEF ConsentInv
    <3>1. consent \in goodR /\ storedR # consent /\ heldR[q] # consent
      BY <1>1, <2>1 DEF ConsentInv
    <3>2. \A r \in Request : pc'[r] \in {"refresh", "save"} => heldR[r] # consent
      BY <2>1, <2>3, <3>1 DEF ConsentInv
    <3>3. \A r \in Request : pc'[r] = "save" => newR'[r] # consent
      BY <2>1, <2>2, <2>3, <2>4, <3>1 DEF ConsentInv
    <3> QED
      BY <1>1, <3>1, <3>2, <3>3
  <2>8. Kept'
    BY <1>1, <2>1, <2>3, <2>4 DEF Kept
  <2> QED
    BY <2>5, <2>6, <2>7, <2>8
<1> QED
  BY <1>3, <1>4 DEF Inv

LEMMA SaveKeepsInv ==
  ASSUME Inv, NEW q \in Request, Save(q)
  PROVE  Inv'
<1>1. /\ pc[q] = "save" /\ pc' = [pc EXCEPT ![q] = "send"]
      /\ storedR' = newR[q]
      /\ heldR' = [heldR EXCEPT ![q] = None] /\ newR' = [newR EXCEPT ![q] = None]
      /\ UNCHANGED <<style, minted, goodR, consent, trouble, revoked>>
  BY DEF Save, Publish, Moves, NoTrouble
<1>2. /\ pc \in [Request -> RequestPC] /\ newR \in [Request -> 0..minted]
      /\ heldR \in [Request -> 0..minted] /\ goodR \in SUBSET (1..minted)
      /\ minted \in Nat \ {0}
  BY DEF Inv, Typed
<1>3. ASSUME Calm' PROVE InHandInv' /\ OwnInv' /\ ConsentInv' /\ Kept'
  <2>1. InHandInv /\ OwnInv /\ ConsentInv
    BY <1>1, <1>3 DEF Inv, Calm
  <2>2. storedR' \in goodR
    BY <1>1, <2>1 DEF InHandInv
  <2>3. \A r \in Request : pc'[r] \in {"refresh", "save"} =>
          r # q /\ pc[r] = pc'[r] /\ heldR'[r] = heldR[r] /\ newR'[r] = newR[r]
    BY <1>1, <1>2
  <2>4. InHandInv' /\ Kept'
    BY <1>1, <2>1, <2>2, <2>3 DEF InHandInv, Kept
  <2>5. OwnInv'
    BY <1>1, <2>1, <2>3 DEF OwnInv, Rotates
  <2>6. ConsentInv'
    BY <1>1, <2>1, <2>3 DEF ConsentInv
  <2> QED
    BY <2>4, <2>5, <2>6
<1>4. Typed'
  BY <1>1, <1>2 DEF Inv, Typed, RequestPC
<1> QED
  BY <1>3, <1>4 DEF Inv

\* The owner consents, and a pair is issued that only `authorize` has.
LEMMA ConsentKeepsInv ==
  ASSUME Inv, Consent
  PROVE  Inv'
<1> DEFINE n == minted + 1
<1>1. /\ consent = None /\ consent' = n /\ minted' = n /\ goodR' = goodR \cup {n}
      /\ UNCHANGED <<style, storedR, pc, heldR, newR, trouble, revoked>>
  BY DEF Consent, NoTrouble
<1>2. /\ minted \in Nat /\ n \in Nat /\ n > minted
      /\ newR \in [Request -> 0..minted] /\ heldR \in [Request -> 0..minted]
      /\ storedR \in 0..minted /\ goodR \in SUBSET (1..minted)
  BY DEF Inv, Typed
<1>3. Typed'
  <2>1. 0..minted \subseteq 0..n /\ 1..minted \subseteq 1..n /\ n \in 0..n /\ n \in 1..n
    BY <1>2
  <2>2. heldR' \in [Request -> 0..minted'] /\ newR' \in [Request -> 0..minted']
    BY <1>1, <1>2, <2>1
  <2>3. goodR' \in SUBSET (1..minted') /\ storedR' \in 0..minted' /\ consent' \in 0..minted'
    BY <1>1, <1>2, <2>1
  <2>4. minted' \in Nat \ {0}
    BY <1>1, <1>2
  <2> QED
    BY <1>1, <2>2, <2>3, <2>4 DEF Inv, Typed
<1>4. ASSUME Calm' PROVE InHandInv' /\ OwnInv' /\ ConsentInv' /\ Kept'
  <2>1. InHandInv /\ OwnInv /\ Kept
    BY <1>1, <1>4 DEF Inv, Calm
  <2>2. /\ \A r \in Request : heldR[r] # n /\ newR[r] # n
        /\ storedR # n
    BY <1>2
  <2>3. InHandInv' /\ Kept'
    BY <1>1, <2>1 DEF InHandInv, Kept
  <2>4. OwnInv'
    BY <1>1, <2>1 DEF OwnInv, Rotates
  <2>5. ConsentInv'
    BY <1>1, <2>2 DEF ConsentInv
  <2> QED
    BY <2>3, <2>4, <2>5
<1> QED
  BY <1>3, <1>4 DEF Inv

LEMMA AuthorizedKeepsInv ==
  ASSUME Inv, Authorized
  PROVE  Inv'
<1>1. /\ consent # None /\ storedR' = consent /\ consent' = None
      /\ UNCHANGED <<style, minted, goodR, pc, heldR, newR, trouble, revoked>>
  BY DEF Authorized, NoTrouble
<1>2. Typed'
  BY <1>1 DEF Inv, Typed
<1>3. ASSUME Calm' PROVE InHandInv' /\ OwnInv' /\ ConsentInv' /\ Kept'
  <2>1. InHandInv /\ OwnInv /\ ConsentInv
    BY <1>1, <1>3 DEF Inv, Calm
  <2>2. InHandInv' /\ ConsentInv' /\ Kept'
    BY <1>1, <2>1 DEF InHandInv, ConsentInv, Kept
  <2>3. OwnInv'
    BY <1>1, <2>1 DEF OwnInv, ConsentInv, Rotates
  <2> QED
    BY <2>2, <2>3
<1> QED
  BY <1>2, <1>3 DEF Inv

\* A renewal that is lost, and a grant withdrawn, end the calm.
LEMMA TroubleKeepsInv ==
  ASSUME Inv, Revoke \/ \E q \in Request : RenewalLost(q)
  PROVE  Inv'
<1>1. CASE Revoke
  <2>1. /\ goodR' = {} /\ revoked' = TRUE
        /\ UNCHANGED <<style, minted, storedR, consent, pc, heldR, newR, trouble>>
    BY <1>1 DEF Revoke, NoTrouble
  <2>2. Typed'
    BY <2>1 DEF Inv, Typed
  <2> QED
    BY <2>1, <2>2 DEF Inv, Calm
<1>2. ASSUME NEW q \in Request, RenewalLost(q) PROVE Inv'
  <2>1. /\ minted' = minted + 1 /\ goodR' \subseteq goodR \cup {minted + 1}
        /\ trouble' = trouble + 1
        /\ UNCHANGED <<style, storedR, consent, revoked>>
    BY <1>2 DEF RenewalLost, Issue, Trouble
  <2>2. /\ pc' = [pc EXCEPT ![q] = "failed"]
        /\ heldR' = [heldR EXCEPT ![q] = None] /\ newR' = [newR EXCEPT ![q] = None]
    BY <1>2 DEF RenewalLost, Ends, Moves, Forgets
  <2>3. minted \in Nat /\ 0..minted \subseteq 0..(minted + 1) /\ 1..minted \subseteq 1..(minted + 1)
        /\ minted + 1 \in 1..(minted + 1) /\ 0 \in 0..(minted + 1)
    BY DEF Inv, Typed
  <2>4. heldR' \in [Request -> 0..minted'] /\ newR' \in [Request -> 0..minted']
    BY <2>1, <2>2, <2>3 DEF Inv, Typed
  <2>5. goodR' \in SUBSET (1..minted') /\ storedR' \in 0..minted' /\ consent' \in 0..minted'
    BY <2>1, <2>3 DEF Inv, Typed
  <2>6. trouble' \in Nat /\ trouble' > 0 /\ minted' \in Nat \ {0}
    BY <2>1, <2>3 DEF Inv, Typed
  <2>7. Typed'
    BY <2>1, <2>2, <2>4, <2>5, <2>6 DEF Inv, Typed, RequestPC
  <2> QED
    BY <2>6, <2>7 DEF Inv, Calm
<1> QED
  BY <1>1, <1>2

LEMMA InvIsKept == Inv /\ [Next]_vars => Inv'
<1> SUFFICES ASSUME Inv, [Next]_vars PROVE Inv'
  OBVIOUS
<1>1. ASSUME NEW q \in Request,
             \/ Start(q) \/ Reuse(q) \/ ReplayRefusal(q) \/ Unreadable(q) \/ Unreachable(q)
             \/ Refused(q) \/ SaveFails(q) \/ Answered(q) \/ Unauthorized(q) \/ RefusedTwice(q)
      PROVE  Inv'
  BY <1>1, RequestStepsAreQuiet, QuietKeepsInv
<1>2. ASSUME NEW q \in Request, TakeGate(q) \/ Renewed(q) \/ Save(q)
      PROVE  Inv'
  BY <1>2, TakeGateKeepsInv, RenewedKeepsInv, SaveKeepsInv
<1>3. ASSUME NEW p \in Process, Launch(p) \/ Exit(p) PROVE Inv'
  BY <1>3, ProcessStepsAreQuiet, QuietKeepsInv
<1>4. CASE Age \/ \E a \in Token : Retire(a)
  BY <1>4, WorldStepsAreQuiet, QuietKeepsInv
<1>5. CASE Revoke \/ \E q \in Request : RenewalLost(q)
  BY <1>5, TroubleKeepsInv
<1>6. CASE Consent \/ Authorized
  BY <1>6, ConsentKeepsInv, AuthorizedKeepsInv
<1>7. CASE UNCHANGED vars
  <2>1. Quiet
    BY <1>7 DEF vars, Quiet, Inv, Typed, Calm
  <2> QED
    BY <2>1, QuietKeepsInv
<1> QED
  BY <1>1, <1>2, <1>3, <1>4, <1>5, <1>6, <1>7 DEF Next

-----------------------------------------------------------------------------

\* The refresh token on disk stays one the provider will take
\* (access_token_at, refresh_locked), for any number of processes and requests.
THEOREM RotationIsKeptHolds == Spec => []RotationIsKept
<1>1. Inv => RotationIsKept
  BY DEF Inv, Typed, Calm, Kept, RotationIsKept
<1> HIDE DEF Inv
<1> QED
  BY InvInit, InvIsKept, <1>1, PTL DEF Spec

-----------------------------------------------------------------------------
(* The access tokens: who has seen which                                    *)

AccessTyped ==
  /\ style \in Style
  /\ minted \in Nat \ {0}
  /\ storedA \in 1..minted /\ consent \in 0..minted
  /\ up \in [Process -> BOOLEAN]
  /\ gate \in [Process -> Request \cup {Nobody}]
  /\ generation \in [Process -> Nat] /\ memo \in [Process -> 0..minted]
  /\ refused \in [Process -> SUBSET (0..minted)]
  /\ pc \in [Request -> RequestPC]
  /\ token \in [Request -> 0..minted]
  /\ heldA \in [Request -> 0..minted] /\ newA \in [Request -> 0..minted]
  /\ seen \in [Request -> Nat]
  /\ forced \in [Request -> BOOLEAN] /\ covered \in [Request -> BOOLEAN]

Renewing == {"refresh", "save"}

\* A process renews for one request at a time.
GateInv == \A q \in Request : pc[q] \in Renewing => gate[Of[q]] = q

\* An access token that is in the file, in a request or in a refusal.
Known(a) ==
  \/ a = storedA
  \/ \E q \in Request : token[q] = a \/ heldA[q] = a
  \/ \E p \in Process : a \in refused[p]

\* A token that was issued and not yet written is nobody else's.
SealedInv ==
  /\ \A q \in Request : pc[q] = "save" => newA[q] # None /\ ~Known(newA[q])
  /\ \A q, r \in Request :
       (pc[q] = "save" /\ pc[r] = "save" /\ newA[q] = newA[r]) => q = r
  /\ consent # None =>
       ~Known(consent) /\ \A q \in Request : pc[q] = "save" => newA[q] # consent

\* The count a request waits on is not ahead of the manager's.
SeenInv ==
  style = "fortnox" => \A q \in Request : pc[q] = "queue" => seen[q] <= generation[Of[q]]

\* Somebody renewed since the request began to wait: it will see as much.
CoveredInv ==
  \A q \in Request : covered[q] =>
    /\ pc[q] = "queue"
    /\ IF style = "fortnox" THEN seen[q] < generation[Of[q]]
                            ELSE forced[q] => token[q] # storedA

\* The stored token, if its renewal was refused, is the one remembered; and what
\* a renewal in progress asks about was not refused before.
DeadInv ==
  style # "fortnox" =>
    /\ \A p \in Process : storedA \in refused[p] => memo[p] = storedA
    /\ \A q \in Request : pc[q] = "refresh" =>
         storedA \notin refused[Of[q]] /\ heldA[q] \notin refused[Of[q]]

AccessInv == AccessTyped /\ GateInv /\ SealedInv /\ SeenInv /\ CoveredInv /\ DeadInv

\* One process at a time, a grant in good standing, one token retired too early.
Good == retired <= 1 /\ ~overlapped /\ ~revoked /\ trouble = 0

ServedTyped ==
  /\ goodA \in SUBSET (1..minted) /\ retired \in Nat
  /\ overlapped \in BOOLEAN /\ revoked \in BOOLEAN /\ trouble \in Nat

\* Only a running process has requests under way.
AliveInv == \A q \in Request : pc[q] \notin {"idle", "failed"} => up[Of[q]]

OneProcess == \A p, o \in Process : up[p] /\ up[o] => p = o

\* At most one token is dead.
OneDead ==
  /\ retired = 0 => goodA = 1..minted
  /\ \A a, b \in 1..minted : a \notin goodA /\ b \notin goodA => a = b

\* What is presented will be taken, and a request has something to send.
PresentedInv ==
  \A q \in Request :
    /\ pc[q] # "failed"
    /\ pc[q] = "refresh" => heldR[q] \in goodR
    /\ pc[q] = "send" => token[q] # None

\* A request that forces a renewal has seen the dead token, so no token still to
\* be written is dead, and what it is given next is not.
ForcedInv ==
  \A q \in Request : forced[q] =>
    /\ pc[q] \notin {"idle", "failed"} /\ retired > 0
    /\ \A r \in Request : pc[r] = "save" => newA[r] \in goodA
    /\ consent # None => consent \in goodA
    /\ pc[q] = "send" => token[q] \in goodA
    /\ pc[q] = "queue" =>
         IF style = "fortnox" THEN generation[Of[q]] # seen[q] => storedA \in goodA
                              ELSE token[q] # None /\ token[q] \notin goodA

NothingRemembered == \A p \in Process : memo[p] = None

ServedInv ==
  /\ ServedTyped /\ AliveInv
  /\ Good => OneProcess /\ OneDead /\ PresentedInv /\ ForcedInv /\ NothingRemembered

LEMMA AccessInit == Init => AccessInv
<1> SUFFICES ASSUME Init PROVE AccessInv
  OBVIOUS
<1>1. AccessTyped
  <2>1. /\ minted = 1 /\ storedA = 1 /\ consent = 0 /\ style \in Style
        /\ up \in [Process -> BOOLEAN] /\ gate \in [Process -> Request \cup {Nobody}]
        /\ generation \in [Process -> Nat] /\ seen \in [Request -> Nat]
        /\ forced \in [Request -> BOOLEAN] /\ covered \in [Request -> BOOLEAN]
    BY DEF Init
  <2>2. /\ memo \in [Process -> 0..minted] /\ refused \in [Process -> SUBSET (0..minted)]
        /\ token \in [Request -> 0..minted]
        /\ heldA \in [Request -> 0..minted] /\ newA \in [Request -> 0..minted]
    BY <2>1 DEF Init
  <2>3. pc \in [Request -> RequestPC]
    BY DEF Init, RequestPC
  <2>4. minted \in Nat \ {0} /\ storedA \in 1..minted /\ consent \in 0..minted
    BY <2>1
  <2> HIDE DEF None, RequestPC, Style
  <2> QED
    BY <2>1, <2>2, <2>3, <2>4, Zenon DEF AccessTyped
<1>2. /\ \A q \in Request : pc[q] = "idle" /\ covered[q] = FALSE
      /\ \A p \in Process : refused[p] = {}
      /\ consent = None
  BY DEF Init
<1>3. GateInv /\ SealedInv /\ SeenInv /\ CoveredInv /\ DeadInv
  BY <1>2 DEF GateInv, SealedInv, SeenInv, CoveredInv, DeadInv, Renewing
<1> QED
  BY <1>1, <1>3 DEF AccessInv

\* A request that is over, or gives up, forgets what it knew; if it had the gate
\* it leaves it.
Settles(q) ==
  /\ \E p \in {"idle", "failed"} : Ends(q, p)
  /\ gate' = gate \/ (pc[q] \in Renewing /\ LeaveGate(q))
  /\ minted' \in {minted, minted + 1}
  /\ UNCHANGED <<style, storedA, up, generation, consent>>

LEMMA SettlesForgets ==
  ASSUME AccessInv, NEW q \in Request, Settles(q)
  PROVE  /\ \A r \in Request \ {q} :
              /\ pc'[r] = pc[r] /\ token'[r] = token[r] /\ forced'[r] = forced[r]
              /\ seen'[r] = seen[r] /\ heldA'[r] = heldA[r] /\ newA'[r] = newA[r]
              /\ covered'[r] = covered[r]
         /\ pc'[q] \in {"idle", "failed"} /\ token'[q] = None /\ heldA'[q] = None
         /\ covered'[q] = FALSE
BY DEF AccessInv, AccessTyped, Settles, Ends, Moves, Forgets

\* Typing, of all but what a refusal writes.
LEMMA SettlesTyped ==
  ASSUME AccessInv, NEW q \in Request, Settles(q),
         memo' \in [Process -> 0..minted'], refused' \in [Process -> SUBSET (0..minted')]
  PROVE  AccessTyped'
<1>1. minted \in Nat \ {0} /\ minted' \in Nat \ {0} /\ minted <= minted'
  BY DEF AccessInv, AccessTyped, Settles
<1>2. 0..minted \subseteq 0..minted' /\ 1..minted \subseteq 1..minted' /\ 0 \in 0..minted'
  BY <1>1
<1>3. /\ pc' \in [Request -> RequestPC] /\ forced' \in [Request -> BOOLEAN]
      /\ covered' \in [Request -> BOOLEAN] /\ seen' \in [Request -> Nat]
  BY DEF AccessInv, AccessTyped, Settles, Ends, Moves, Forgets, RequestPC
<1>4. /\ token' \in [Request -> 0..minted'] /\ heldA' \in [Request -> 0..minted']
      /\ newA' \in [Request -> 0..minted']
  BY <1>2 DEF AccessInv, AccessTyped, Settles, Ends, Forgets
<1>5. gate' \in [Process -> Request \cup {Nobody}]
  BY DEF AccessInv, AccessTyped, Settles, LeaveGate
<1>6. /\ style' \in Style /\ storedA' \in 1..minted' /\ consent' \in 0..minted'
      /\ up' \in [Process -> BOOLEAN] /\ generation' \in [Process -> Nat]
  BY <1>2 DEF AccessInv, AccessTyped, Settles
<1> QED
  BY <1>1, <1>3, <1>4, <1>5, <1>6 DEF AccessTyped

LEMMA SettlesKeepsAccess ==
  ASSUME AccessInv, NEW q \in Request, Settles(q), UNCHANGED <<memo, refused>>
  PROVE  AccessInv'
<1>1. AccessTyped'
  <2>1. 0..minted \subseteq 0..minted'
    BY DEF AccessInv, AccessTyped, Settles
  <2> QED
    BY <2>1, SettlesTyped DEF AccessInv, AccessTyped
<1>2. /\ \A r \in Request \ {q} :
           /\ pc'[r] = pc[r] /\ token'[r] = token[r] /\ forced'[r] = forced[r]
           /\ seen'[r] = seen[r] /\ heldA'[r] = heldA[r] /\ newA'[r] = newA[r]
           /\ covered'[r] = covered[r]
      /\ pc'[q] \in {"idle", "failed"} /\ token'[q] = None /\ heldA'[q] = None
      /\ covered'[q] = FALSE
  BY SettlesForgets
<1>3. UNCHANGED <<style, storedA, consent, generation, memo, refused>>
  BY DEF Settles
<1>4. GateInv'
  <2>1. \A r \in Request : pc'[r] \in Renewing => r # q /\ gate[Of[r]] = r
    BY <1>2 DEF AccessInv, GateInv, Renewing
  <2>2. CASE gate' = gate
    BY <2>1, <2>2 DEF GateInv
  <2>3. CASE pc[q] \in Renewing /\ LeaveGate(q)
    <3>1. gate[Of[q]] = q /\ gate' = [gate EXCEPT ![Of[q]] = Nobody]
      BY <2>3 DEF AccessInv, GateInv, LeaveGate
    <3> QED
      BY <2>1, <3>1 DEF GateInv, AccessInv, AccessTyped
  <2> QED
    BY <2>2, <2>3 DEF Settles
<1>5. SealedInv'
  <2>1. \A a : a # None /\ Known(a)' => Known(a)
    BY <1>2, <1>3 DEF Known
  <2> QED
    BY <1>2, <1>3, <2>1 DEF AccessInv, SealedInv
<1>6. SeenInv' /\ CoveredInv'
  BY <1>2, <1>3 DEF AccessInv, SeenInv, CoveredInv
<1>7. DeadInv'
  BY <1>2, <1>3 DEF AccessInv, DeadInv
<1> QED
  BY <1>1, <1>4, <1>5, <1>6, <1>7 DEF AccessInv

\* The provider refuses: what it was asked about is remembered.
LEMMA RefusedKeepsAccess ==
  ASSUME AccessInv, NEW q \in Request, Refused(q)
  PROVE  AccessInv'
<1> DEFINE p == Of[q]
<1>1. Settles(q) /\ pc[q] = "refresh" /\ minted' = minted
  BY DEF Refused, Settles, Renewing
<1>2. CASE style = "fortnox"
  <2>1. memo' = memo /\ refused' = refused
    BY <1>2 DEF Refused, AccessInv, AccessTyped
  <2> QED
    BY <1>1, <2>1, SettlesKeepsAccess
<1>3. CASE style # "fortnox"
  <2>1. /\ memo' = [memo EXCEPT ![p] = heldA[q]]
        /\ refused' = [refused EXCEPT ![p] = @ \cup {heldA[q]}]
        /\ UNCHANGED <<style, storedA, consent, generation>>
    BY <1>3 DEF Refused
  <2>2. AccessTyped'
    <3>1. /\ memo' \in [Process -> 0..minted'] /\ refused' \in [Process -> SUBSET (0..minted')]
      BY <1>1, <2>1 DEF AccessInv, AccessTyped
    <3> QED
      BY <1>1, <3>1, SettlesTyped
  <2>3. /\ \A r \in Request \ {q} :
             /\ pc'[r] = pc[r] /\ token'[r] = token[r] /\ forced'[r] = forced[r]
             /\ seen'[r] = seen[r] /\ heldA'[r] = heldA[r] /\ newA'[r] = newA[r]
             /\ covered'[r] = covered[r]
        /\ pc'[q] \in {"idle", "failed"} /\ token'[q] = None /\ heldA'[q] = None
        /\ covered'[q] = FALSE
    BY <1>1, SettlesForgets
  <2>4. \A r \in Request : pc[r] \in Renewing /\ r # q => Of[r] # p
    BY <1>1 DEF AccessInv, GateInv, Renewing
  <2>5. GateInv'
    <3>1. gate' = [gate EXCEPT ![p] = Nobody]
      BY DEF Refused, LeaveGate
    <3> QED
      BY <2>3, <2>4, <3>1 DEF AccessInv, AccessTyped, GateInv, Renewing
  <2>6. SealedInv'
    <3>1. \A a : a # None /\ Known(a)' => Known(a)
      BY <2>1, <2>3 DEF Known, AccessInv, AccessTyped
    <3> QED
      BY <2>1, <2>3, <3>1 DEF AccessInv, SealedInv
  <2>7. SeenInv' /\ CoveredInv'
    BY <2>1, <2>3 DEF AccessInv, SeenInv, CoveredInv
  <2>8. DeadInv'
    <3>1. \A o \in Process : storedA \in refused'[o] => memo'[o] = storedA
      <4> SUFFICES ASSUME NEW o \in Process, storedA \in refused'[o]
                   PROVE  memo'[o] = storedA
        OBVIOUS
      <4>1. CASE o = p
        <5>1. storedA \notin refused[p]
          BY <1>1, <1>3 DEF AccessInv, DeadInv
        <5> QED
          BY <2>1, <4>1, <5>1 DEF AccessInv, AccessTyped
      <4>2. CASE o # p
        BY <1>3, <2>1, <4>2 DEF AccessInv, DeadInv, AccessTyped
      <4> QED
        BY <4>1, <4>2
    <3>2. \A r \in Request : pc'[r] = "refresh" =>
            storedA \notin refused'[Of[r]] /\ heldA'[r] \notin refused'[Of[r]]
      BY <1>3, <2>1, <2>3, <2>4 DEF AccessInv, AccessTyped, DeadInv, Renewing
    <3> QED
      BY <2>1, <3>1, <3>2 DEF DeadInv
  <2> QED
    BY <2>2, <2>5, <2>6, <2>7, <2>8 DEF AccessInv
<1> QED
  BY <1>2, <1>3

LEMMA SettlingKeepsAccess ==
  ASSUME AccessInv, NEW q \in Request,
         \/ ReplayRefusal(q) \/ Unreadable(q) \/ RenewalLost(q) \/ Unreachable(q)
         \/ SaveFails(q) \/ Answered(q) \/ RefusedTwice(q)
  PROVE  AccessInv'
<1>1. CASE ReplayRefusal(q) \/ Unreadable(q) \/ Answered(q) \/ RefusedTwice(q)
  <2>1. Settles(q) /\ UNCHANGED <<memo, refused>>
    BY <1>1 DEF ReplayRefusal, Unreadable, Answered, RefusedTwice, Settles
  <2> QED
    BY <2>1, SettlesKeepsAccess
<1>2. CASE RenewalLost(q) \/ Unreachable(q) \/ SaveFails(q)
  <2>1. Settles(q) /\ UNCHANGED <<memo, refused>>
    BY <1>2 DEF RenewalLost, Issue, Unreachable, SaveFails, Settles, Renewing
  <2> QED
    BY <2>1, SettlesKeepsAccess
<1> QED
  BY <1>1, <1>2

-----------------------------------------------------------------------------
(* The steps of a request that goes on                                      *)

LEMMA StartKeepsAccess ==
  ASSUME AccessInv, NEW q \in Request, Start(q)
  PROVE  AccessInv'
<1>1. /\ pc[q] \in {"idle", "failed"} /\ pc' = [pc EXCEPT ![q] = "queue"]
      /\ seen' = [seen EXCEPT ![q] = Counter(Of[q])]
      /\ UNCHANGED <<style, storedA, up, gate, generation, memo, token, forced, heldA, newA,
                     minted, consent, covered, refused>>
  BY DEF Start, Moves
<1>2. /\ \A r \in Request \ {q} : pc'[r] = pc[r] /\ seen'[r] = seen[r]
      /\ pc'[q] = "queue" /\ seen'[q] = Counter(Of[q])
  BY <1>1 DEF AccessInv, AccessTyped
<1>3. AccessTyped'
  BY <1>1 DEF AccessInv, AccessTyped, RequestPC, Counter
<1>4. GateInv'
  BY <1>1, <1>2 DEF AccessInv, GateInv, Renewing
<1>5. SealedInv'
  BY <1>1, <1>2 DEF AccessInv, SealedInv, Known
<1>6. SeenInv'
  BY <1>1, <1>2 DEF AccessInv, AccessTyped, SeenInv, Counter
<1>7. CoveredInv'
  BY <1>1, <1>2 DEF AccessInv, CoveredInv
<1>8. DeadInv'
  BY <1>1, <1>2 DEF AccessInv, DeadInv
<1> QED
  BY <1>3, <1>4, <1>5, <1>6, <1>7, <1>8 DEF AccessInv

LEMMA ReuseKeepsAccess ==
  ASSUME AccessInv, NEW q \in Request, Reuse(q)
  PROVE  AccessInv'
<1>1. /\ pc[q] = "queue" /\ pc' = [pc EXCEPT ![q] = "send"]
      /\ token' = [token EXCEPT ![q] = storedA]
      /\ seen' = [seen EXCEPT ![q] = 0] /\ covered' = [covered EXCEPT ![q] = FALSE]
      /\ UNCHANGED <<style, storedA, up, gate, generation, memo, forced, heldA, newA,
                     minted, consent, refused>>
  BY DEF Reuse, Moves
<1>2. /\ \A r \in Request \ {q} : /\ pc'[r] = pc[r] /\ seen'[r] = seen[r]
                                  /\ token'[r] = token[r] /\ covered'[r] = covered[r]
      /\ pc'[q] = "send" /\ token'[q] = storedA /\ covered'[q] = FALSE
  BY <1>1 DEF AccessInv, AccessTyped
<1>3. AccessTyped'
  BY <1>1 DEF AccessInv, AccessTyped, RequestPC
<1>4. GateInv'
  BY <1>1, <1>2 DEF AccessInv, GateInv, Renewing
<1>5. SealedInv'
  <2>1. \A a : Known(a)' => Known(a)
    BY <1>1, <1>2 DEF Known
  <2> QED
    BY <1>1, <1>2, <2>1 DEF AccessInv, SealedInv
<1>6. SeenInv' /\ CoveredInv'
  BY <1>1, <1>2 DEF AccessInv, SeenInv, CoveredInv
<1>7. DeadInv'
  BY <1>1, <1>2 DEF AccessInv, DeadInv
<1> QED
  BY <1>3, <1>4, <1>5, <1>6, <1>7 DEF AccessInv

\* The step HerdIsShared is about: a covered request finds a token that will do,
\* unless it has aged.
LEMMA TakeGateKeepsAccess ==
  ASSUME AccessInv, NEW q \in Request, TakeGate(q)
  PROVE  AccessInv'
<1> DEFINE p == Of[q]
<1>1. /\ pc[q] = "queue" /\ gate[p] = Nobody /\ ~Fresh(q) /\ ~Remembered(p)
      /\ pc' = [pc EXCEPT ![q] = "refresh"] /\ gate' = [gate EXCEPT ![p] = q]
      /\ heldA' = [heldA EXCEPT ![q] = storedA]
      /\ covered' = [covered EXCEPT ![q] = @ /\ ~stale]
      /\ UNCHANGED <<style, storedA, up, generation, memo, token, forced, seen, newA,
                     minted, consent, refused>>
  BY DEF TakeGate, GateIsFree, Moves
<1>2. /\ \A r \in Request \ {q} : /\ pc'[r] = pc[r] /\ heldA'[r] = heldA[r]
                                  /\ covered'[r] = covered[r]
      /\ pc'[q] = "refresh" /\ heldA'[q] = storedA /\ covered'[q] = (covered[q] /\ ~stale)
  BY <1>1 DEF AccessInv, AccessTyped
<1>3. AccessTyped'
  <2>1. covered' \in [Request -> BOOLEAN]
    BY <1>1 DEF AccessInv, AccessTyped
  <2>2. /\ pc' \in [Request -> RequestPC] /\ gate' \in [Process -> Request \cup {Nobody}]
        /\ heldA' \in [Request -> 0..minted]
    BY <1>1 DEF AccessInv, AccessTyped, RequestPC
  <2> QED
    BY <1>1, <2>1, <2>2 DEF AccessInv, AccessTyped
<1>4. GateInv'
  <2>1. \A r \in Request : pc[r] \in Renewing => Of[r] # p
    BY <1>1 DEF AccessInv, GateInv
  <2> QED
    BY <1>1, <1>2, <2>1 DEF AccessInv, AccessTyped, GateInv
<1>5. SealedInv'
  <2>1. \A a : Known(a)' => Known(a)
    BY <1>1, <1>2 DEF Known
  <2> QED
    BY <1>1, <1>2, <2>1 DEF AccessInv, SealedInv
<1>6. SeenInv'
  BY <1>1, <1>2 DEF AccessInv, SeenInv
<1>7. covered[q] => stale
  BY <1>1 DEF AccessInv, AccessTyped, CoveredInv, Fresh
<1>8. CoveredInv'
  BY <1>1, <1>2, <1>7 DEF AccessInv, CoveredInv
<1>9. DeadInv'
  BY <1>1, <1>2 DEF AccessInv, DeadInv, Remembered
<1> QED
  BY <1>3, <1>4, <1>5, <1>6, <1>8, <1>9 DEF AccessInv

LEMMA UnauthorizedKeepsAccess ==
  ASSUME AccessInv, NEW q \in Request, Unauthorized(q)
  PROVE  AccessInv'
<1>1. /\ pc[q] = "send" /\ pc' = [pc EXCEPT ![q] = "queue"]
      /\ forced' = [forced EXCEPT ![q] = TRUE]
      /\ token' = [token EXCEPT ![q] = IF style = "fortnox" THEN None ELSE @]
      /\ seen' = [seen EXCEPT ![q] = Counter(Of[q])]
      /\ UNCHANGED <<style, storedA, up, gate, generation, memo, heldA, newA,
                     minted, consent, covered, refused>>
  BY DEF Unauthorized, Moves
<1>2. /\ \A r \in Request \ {q} : /\ pc'[r] = pc[r] /\ seen'[r] = seen[r]
                                  /\ token'[r] = token[r] /\ forced'[r] = forced[r]
      /\ pc'[q] = "queue" /\ seen'[q] = Counter(Of[q]) /\ token'[q] \in {token[q], None}
  BY <1>1 DEF AccessInv, AccessTyped
<1>3. AccessTyped'
  <2>1. token' \in [Request -> 0..minted]
    BY <1>1 DEF AccessInv, AccessTyped
  <2> QED
    BY <1>1, <2>1 DEF AccessInv, AccessTyped, RequestPC, Counter
<1>4. GateInv'
  BY <1>1, <1>2 DEF AccessInv, GateInv, Renewing
<1>5. SealedInv'
  <2>1. \A a : a # None /\ Known(a)' => Known(a)
    BY <1>1, <1>2 DEF Known
  <2> QED
    BY <1>1, <1>2, <2>1 DEF AccessInv, SealedInv
<1>6. SeenInv'
  BY <1>1, <1>2 DEF AccessInv, AccessTyped, SeenInv, Counter
<1>7. CoveredInv'
  BY <1>1, <1>2 DEF AccessInv, CoveredInv
<1>8. DeadInv'
  BY <1>1, <1>2 DEF AccessInv, DeadInv
<1> QED
  BY <1>3, <1>4, <1>5, <1>6, <1>7, <1>8 DEF AccessInv

\* The pair a renewal brings is nobody's yet.
LEMMA RenewedKeepsAccess ==
  ASSUME AccessInv, NEW q \in Request, Renewed(q)
  PROVE  AccessInv'
<1> DEFINE n == minted + 1
<1>1. /\ pc[q] = "refresh" /\ pc' = [pc EXCEPT ![q] = "save"]
      /\ newA' = [newA EXCEPT ![q] = n] /\ minted' = n
      /\ UNCHANGED <<style, storedA, up, gate, generation, memo, token, forced, seen, heldA,
                     consent, covered, refused>>
  BY DEF Renewed, Issue, Moves
<1>2. /\ \A r \in Request \ {q} : pc'[r] = pc[r] /\ newA'[r] = newA[r]
      /\ pc'[q] = "save" /\ newA'[q] = n
  BY <1>1 DEF AccessInv, AccessTyped
<1>3. n \in Nat \ {0} /\ n > minted /\ 0..minted \subseteq 0..n /\ 1..minted \subseteq 1..n
  BY DEF AccessInv, AccessTyped
<1>4. AccessTyped'
  <2>1. /\ storedA' \in 1..minted' /\ consent' \in 0..minted'
        /\ memo' \in [Process -> 0..minted'] /\ refused' \in [Process -> SUBSET (0..minted')]
        /\ token' \in [Request -> 0..minted'] /\ heldA' \in [Request -> 0..minted']
    BY <1>1, <1>3 DEF AccessInv, AccessTyped
  <2>2. newA' \in [Request -> 0..minted']
    BY <1>1, <1>3 DEF AccessInv, AccessTyped
  <2>3. minted' \in Nat \ {0} /\ pc' \in [Request -> RequestPC]
    BY <1>1, <1>3 DEF AccessInv, AccessTyped, RequestPC
  <2> QED
    BY <1>1, <2>1, <2>2, <2>3 DEF AccessInv, AccessTyped
<1>5. GateInv'
  BY <1>1, <1>2 DEF AccessInv, GateInv, Renewing
<1>6. SealedInv'
  <2>1. \A a : Known(a)' <=> Known(a)
    BY <1>1 DEF Known
  <2>2. /\ ~Known(n) /\ consent # n
        /\ \A r \in Request : newA[r] # n
    BY <1>3 DEF AccessInv, AccessTyped, Known
  <2> QED
    BY <1>1, <1>2, <1>3, <2>1, <2>2 DEF AccessInv, SealedInv
<1>7. SeenInv' /\ CoveredInv'
  BY <1>1, <1>2 DEF AccessInv, SeenInv, CoveredInv
<1>8. DeadInv'
  BY <1>1, <1>2 DEF AccessInv, DeadInv
<1> QED
  BY <1>4, <1>5, <1>6, <1>7, <1>8 DEF AccessInv

\* The write: everyone waiting in this process will see a new token, and in all
\* of them it is one they have not seen.
LEMMA SaveKeepsAccess ==
  ASSUME AccessInv, NEW q \in Request, Save(q)
  PROVE  AccessInv'
<1> DEFINE p == Of[q]
<1>1. /\ pc[q] = "save" /\ pc' = [pc EXCEPT ![q] = "send"]
      /\ storedA' = newA[q] /\ token' = [token EXCEPT ![q] = newA[q]]
      /\ generation' = [generation EXCEPT ![p] = IF style = "fortnox" THEN @ + 1 ELSE @]
      /\ memo' = [memo EXCEPT ![p] = None] /\ gate' = [gate EXCEPT ![p] = Nobody]
      /\ seen' = [seen EXCEPT ![q] = 0]
      /\ heldA' = [heldA EXCEPT ![q] = None] /\ newA' = [newA EXCEPT ![q] = None]
      /\ covered' = [r \in Request |-> IF pc[r] = "queue" /\ Of[r] = p
                                       THEN TRUE ELSE covered[r] /\ r # q]
      /\ UNCHANGED <<style, up, forced, minted, consent, refused>>
  BY DEF Save, Publish, LeaveGate, Moves
<1>2. /\ \A r \in Request \ {q} :
           /\ pc'[r] = pc[r] /\ token'[r] = token[r] /\ seen'[r] = seen[r]
           /\ heldA'[r] = heldA[r] /\ newA'[r] = newA[r]
           /\ covered'[r] = (IF pc[r] = "queue" /\ Of[r] = p THEN TRUE ELSE covered[r])
      /\ pc'[q] = "send" /\ token'[q] = newA[q] /\ heldA'[q] = None /\ covered'[q] = FALSE
  BY <1>1 DEF AccessInv, AccessTyped
<1>3. newA[q] \in 1..minted /\ ~Known(newA[q]) /\ consent # newA[q]
  BY <1>1 DEF AccessInv, AccessTyped, SealedInv
<1>4. AccessTyped'
  <2>1. covered' \in [Request -> BOOLEAN] /\ generation' \in [Process -> Nat]
    <3>1. \A r \in Request :
            (IF pc[r] = "queue" /\ Of[r] = p THEN TRUE ELSE covered[r] /\ r # q) \in BOOLEAN
      OBVIOUS
    <3>2. covered' \in [Request -> BOOLEAN]
      BY <1>1, <3>1
    <3>3. generation' \in [Process -> Nat]
      BY <1>1 DEF AccessInv, AccessTyped
    <3> QED
      BY <3>2, <3>3
  <2>2. /\ pc' \in [Request -> RequestPC] /\ gate' \in [Process -> Request \cup {Nobody}]
        /\ seen' \in [Request -> Nat] /\ memo' \in [Process -> 0..minted]
    BY <1>1 DEF AccessInv, AccessTyped, RequestPC
  <2>3. /\ token' \in [Request -> 0..minted] /\ heldA' \in [Request -> 0..minted]
        /\ newA' \in [Request -> 0..minted]
    BY <1>1, <1>3 DEF AccessInv, AccessTyped
  <2> QED
    BY <1>1, <1>3, <2>1, <2>2, <2>3 DEF AccessInv, AccessTyped
<1>5. GateInv'
  <2>1. \A r \in Request : pc'[r] \in Renewing => r # q /\ Of[r] # p /\ gate[Of[r]] = r
    BY <1>1, <1>2 DEF AccessInv, GateInv, Renewing
  <2> QED
    BY <1>1, <2>1 DEF AccessInv, AccessTyped, GateInv
<1>6. SealedInv'
  <2>1. \A a : a # None /\ a # newA[q] /\ Known(a)' => Known(a)
    BY <1>1, <1>2 DEF Known
  <2>2. \A r \in Request : pc'[r] = "save" => r # q /\ pc[r] = "save" /\ newA[r] # newA[q]
    BY <1>1, <1>2 DEF AccessInv, SealedInv
  <2> QED
    BY <1>1, <1>2, <1>3, <2>1, <2>2 DEF AccessInv, SealedInv
<1>7. SeenInv'
  <2>1. \A o \in Process : generation[o] <= generation'[o]
    BY <1>1 DEF AccessInv, AccessTyped
  <2>2. \A r \in Request : pc'[r] = "queue" => pc[r] = "queue" /\ seen'[r] = seen[r]
    BY <1>2
  <2> QED
    BY <1>1, <2>1, <2>2 DEF AccessInv, AccessTyped, SeenInv
<1>8. CoveredInv'
  <2> SUFFICES ASSUME NEW r \in Request, covered'[r]
               PROVE  /\ pc'[r] = "queue"
                      /\ IF style = "fortnox" THEN seen'[r] < generation'[Of[r]]
                                              ELSE forced[r] => token'[r] # storedA'
    BY <1>1 DEF CoveredInv
  <2>1. r # q /\ pc[r] = "queue"
    BY <1>2 DEF AccessInv, CoveredInv
  <2>2. token'[r] # storedA'
    BY <1>1, <1>2, <1>3, <2>1 DEF Known
  <2>3. CASE Of[r] = p
    BY <1>1, <1>2, <2>1, <2>2, <2>3 DEF AccessInv, AccessTyped, SeenInv
  <2>4. CASE Of[r] # p
    <3>1. covered[r] /\ generation'[Of[r]] = generation[Of[r]]
      BY <1>1, <1>2, <2>1, <2>4
    <3> QED
      BY <1>2, <2>1, <2>2, <3>1 DEF AccessInv, CoveredInv
  <2> QED
    BY <2>3, <2>4
<1>9. DeadInv'
  <2>1. \A o \in Process : storedA' \notin refused'[o]
    BY <1>1, <1>3 DEF Known
  <2> QED
    BY <1>1, <1>2, <2>1 DEF AccessInv, DeadInv
<1> QED
  BY <1>4, <1>5, <1>6, <1>7, <1>8, <1>9 DEF AccessInv

-----------------------------------------------------------------------------
(* Processes, the provider, the owner                                       *)

LEMMA ExitKeepsAccess ==
  ASSUME AccessInv, NEW p \in Process, Exit(p)
  PROVE  AccessInv'
<1>1. /\ up' = [up EXCEPT ![p] = FALSE] /\ gate' = [gate EXCEPT ![p] = Nobody]
      /\ generation' = [generation EXCEPT ![p] = 0] /\ memo' = [memo EXCEPT ![p] = None]
      /\ refused' = [refused EXCEPT ![p] = {}]
      /\ UNCHANGED <<style, storedA, minted, consent>>
  BY DEF Exit
<1>2. /\ pc' = [q \in Request |-> IF Of[q] = p THEN "idle" ELSE pc[q]]
      /\ token' = [q \in Request |-> IF Of[q] = p THEN None ELSE token[q]]
      /\ seen' = [q \in Request |-> IF Of[q] = p THEN 0 ELSE seen[q]]
      /\ heldA' = [q \in Request |-> IF Of[q] = p THEN None ELSE heldA[q]]
      /\ newA' = [q \in Request |-> IF Of[q] = p THEN None ELSE newA[q]]
      /\ covered' = [q \in Request |-> covered[q] /\ Of[q] # p]
      /\ forced' = [q \in Request |-> forced[q] /\ Of[q] # p]
  BY DEF Exit
<1>3. \A q \in Request : Of[q] # p =>
        /\ pc'[q] = pc[q] /\ token'[q] = token[q] /\ forced'[q] = forced[q]
        /\ seen'[q] = seen[q] /\ heldA'[q] = heldA[q] /\ newA'[q] = newA[q]
        /\ covered'[q] = covered[q] /\ gate'[Of[q]] = gate[Of[q]]
        /\ generation'[Of[q]] = generation[Of[q]] /\ refused'[Of[q]] = refused[Of[q]]
  BY <1>1, <1>2 DEF AccessInv, AccessTyped
<1>4. \A q \in Request : Of[q] = p =>
        pc'[q] = "idle" /\ covered'[q] = FALSE /\ token'[q] = None /\ heldA'[q] = None
  BY <1>2
<1>5. AccessTyped'
  <2>1. /\ up' \in [Process -> BOOLEAN] /\ gate' \in [Process -> Request \cup {Nobody}]
        /\ generation' \in [Process -> Nat] /\ memo' \in [Process -> 0..minted]
        /\ refused' \in [Process -> SUBSET (0..minted)]
    BY <1>1 DEF AccessInv, AccessTyped
  <2>2. /\ pc' \in [Request -> RequestPC] /\ seen' \in [Request -> Nat]
        /\ token' \in [Request -> 0..minted]
        /\ heldA' \in [Request -> 0..minted] /\ newA' \in [Request -> 0..minted]
    BY <1>2 DEF AccessInv, AccessTyped, RequestPC
  <2>3. covered' \in [Request -> BOOLEAN] /\ forced' \in [Request -> BOOLEAN]
    BY <1>2 DEF AccessInv, AccessTyped
  <2> QED
    BY <1>1, <2>1, <2>2, <2>3 DEF AccessInv, AccessTyped
<1>6. GateInv'
  BY <1>3, <1>4 DEF AccessInv, GateInv, Renewing
<1>7. SealedInv'
  <2>1. \A a : a # None /\ Known(a)' => Known(a)
    BY <1>1, <1>3, <1>4 DEF Known, AccessInv, AccessTyped
  <2> QED
    BY <1>1, <1>3, <1>4, <2>1 DEF AccessInv, SealedInv
<1>8. SeenInv' /\ CoveredInv'
  BY <1>1, <1>3, <1>4 DEF AccessInv, SeenInv, CoveredInv
<1>9. DeadInv'
  <2>1. \A o \in Process : storedA \in refused'[o] => o # p /\ memo'[o] = memo[o]
    BY <1>1 DEF AccessInv, AccessTyped
  <2> QED
    BY <1>1, <1>3, <1>4, <2>1 DEF AccessInv, AccessTyped, DeadInv
<1> QED
  BY <1>5, <1>6, <1>7, <1>8, <1>9 DEF AccessInv

LEMMA AuthorizeKeepsAccess ==
  ASSUME AccessInv, Consent \/ Authorized
  PROVE  AccessInv'
<1>1. CASE Consent
  <2> DEFINE n == minted + 1
  <2>1. /\ consent' = n /\ minted' = n
        /\ UNCHANGED <<style, storedA, memoryVars, requestVars, covered, refused>>
    BY <1>1 DEF Consent
  <2>2. n \in Nat \ {0} /\ n > minted /\ 0..minted \subseteq 0..n /\ 1..minted \subseteq 1..n
        /\ n \in 0..n
    BY DEF AccessInv, AccessTyped
  <2>3. AccessTyped'
    <3>1. /\ storedA' \in 1..minted' /\ consent' \in 0..minted' /\ minted' \in Nat \ {0}
          /\ memo' \in [Process -> 0..minted'] /\ refused' \in [Process -> SUBSET (0..minted')]
          /\ token' \in [Request -> 0..minted'] /\ heldA' \in [Request -> 0..minted']
          /\ newA' \in [Request -> 0..minted']
      BY <2>1, <2>2 DEF AccessInv, AccessTyped
    <3> QED
      BY <2>1, <3>1 DEF AccessInv, AccessTyped
  <2>4. SealedInv'
    <3>1. \A a : Known(a)' <=> Known(a)
      BY <2>1 DEF Known
    <3>2. ~Known(n) /\ \A r \in Request : newA[r] # n
      BY <2>2 DEF AccessInv, AccessTyped, Known
    <3> QED
      BY <2>1, <3>1, <3>2 DEF AccessInv, SealedInv
  <2>5. GateInv' /\ SeenInv' /\ CoveredInv' /\ DeadInv'
    BY <2>1 DEF AccessInv, GateInv, SeenInv, CoveredInv, DeadInv
  <2> QED
    BY <2>3, <2>4, <2>5 DEF AccessInv
<1>2. CASE Authorized
  <2>1. /\ consent # None /\ storedA' = consent /\ consent' = None
        /\ UNCHANGED <<style, memoryVars, requestVars, minted, covered, refused>>
    BY <1>2 DEF Authorized
  <2>2. ~Known(consent) /\ \A r \in Request : pc[r] = "save" => newA[r] # consent
    BY <2>1 DEF AccessInv, SealedInv
  <2>3. AccessTyped'
    BY <2>1 DEF AccessInv, AccessTyped
  <2>4. SealedInv'
    <3>1. \A a : a # consent /\ Known(a)' => Known(a)
      BY <2>1 DEF Known
    <3> QED
      BY <2>1, <2>2, <3>1 DEF AccessInv, SealedInv
  <2>5. CoveredInv' /\ DeadInv'
    BY <2>1, <2>2 DEF AccessInv, CoveredInv, DeadInv, Known
  <2>6. GateInv' /\ SeenInv'
    BY <2>1 DEF AccessInv, GateInv, SeenInv
  <2> QED
    BY <2>3, <2>4, <2>5, <2>6 DEF AccessInv
<1> QED
  BY <1>1, <1>2

\* Steps the tokens, the requests and the gates see nothing of.
LEMMA ElsewhereKeepsAccess ==
  ASSUME AccessInv,
         \/ \E p \in Process : Launch(p)
         \/ Age \/ Revoke \/ \E a \in Token : Retire(a)
         \/ UNCHANGED vars
  PROVE  AccessInv'
<1>1. /\ up' \in [Process -> BOOLEAN]
      /\ UNCHANGED <<style, storedA, gate, generation, memo, pc, token, forced, seen, heldA,
                     newA, minted, consent, covered, refused>>
  <2>1. CASE \E p \in Process : Launch(p)
    BY <2>1 DEF Launch, AccessInv, AccessTyped
  <2>2. CASE Age \/ Revoke \/ \E a \in Token : Retire(a)
    BY <2>2 DEF Age, Revoke, Retire, AccessInv, AccessTyped
  <2>3. CASE UNCHANGED vars
    BY <2>3 DEF vars, AccessInv, AccessTyped
  <2> QED
    BY <2>1, <2>2, <2>3
<1>2. AccessTyped' /\ GateInv' /\ SeenInv' /\ CoveredInv' /\ DeadInv'
  BY <1>1 DEF AccessInv, AccessTyped, GateInv, SeenInv, CoveredInv, DeadInv
<1>3. SealedInv'
  <2>1. \A a : Known(a)' <=> Known(a)
    BY <1>1 DEF Known
  <2> QED
    BY <1>1, <2>1 DEF AccessInv, SealedInv
<1> QED
  BY <1>2, <1>3 DEF AccessInv

LEMMA AccessIsKept == AccessInv /\ [Next]_vars => AccessInv'
<1> SUFFICES ASSUME AccessInv, [Next]_vars PROVE AccessInv'
  OBVIOUS
<1>1. ASSUME NEW q \in Request,
             \/ ReplayRefusal(q) \/ Unreadable(q) \/ RenewalLost(q) \/ Unreachable(q)
             \/ SaveFails(q) \/ Answered(q) \/ RefusedTwice(q)
      PROVE  AccessInv'
  BY <1>1, SettlingKeepsAccess
<1>2. ASSUME NEW q \in Request, Start(q) \/ Reuse(q) \/ TakeGate(q) \/ Unauthorized(q)
      PROVE  AccessInv'
  BY <1>2, StartKeepsAccess, ReuseKeepsAccess, TakeGateKeepsAccess, UnauthorizedKeepsAccess
<1>3. ASSUME NEW q \in Request, Renewed(q) \/ Refused(q) \/ Save(q)
      PROVE  AccessInv'
  BY <1>3, RenewedKeepsAccess, RefusedKeepsAccess, SaveKeepsAccess
<1>4. ASSUME NEW p \in Process, Exit(p) PROVE AccessInv'
  BY <1>4, ExitKeepsAccess
<1>5. CASE Consent \/ Authorized
  BY <1>5, AuthorizeKeepsAccess
<1>6. CASE \/ \E p \in Process : Launch(p)
           \/ Age \/ Revoke \/ \E a \in Token : Retire(a)
           \/ UNCHANGED vars
  BY <1>6, ElsewhereKeepsAccess
<1> QED
  BY <1>1, <1>2, <1>3, <1>4, <1>5, <1>6 DEF Next

LEMMA AccessHolds == Spec => []AccessInv
<1> HIDE DEF AccessInv
<1> QED
  BY AccessInit, AccessIsKept, PTL DEF Spec

\* One renewal serves everyone who waited for it (refresh_after_unauthorized
\* compares the stored token with the refused one, or the generation with the
\* one it saw), in every process, with any number of processes and requests.
THEOREM HerdIsSharedHolds == Spec => []HerdIsShared
<1>1. AccessInv => HerdIsShared
  BY DEF AccessInv, CoveredInv, HerdIsShared
<1> HIDE DEF AccessInv
<1> QED
  BY AccessHolds, <1>1, PTL

\* A grant a process was told is dead is not asked about again
\* (remembered_invalid_grant), whoever else writes the file meanwhile.
THEOREM DeadGrantIsAskedOnceHolds == Spec => []DeadGrantIsAskedOnce
<1>1. AccessInv => DeadGrantIsAskedOnce
  BY DEF AccessInv, DeadInv, DeadGrantIsAskedOnce
<1> HIDE DEF AccessInv
<1> QED
  BY AccessHolds, <1>1, PTL

-----------------------------------------------------------------------------
(* One token retired before its time                                        *)

Core == OneProcess /\ OneDead /\ PresentedInv /\ ForcedInv /\ NothingRemembered

LEMMA ServedInit == Init => ServedInv
<1> SUFFICES ASSUME Init PROVE ServedInv
  OBVIOUS
<1>1. /\ minted = 1 /\ goodA = {1} /\ retired = 0 /\ overlapped = FALSE /\ revoked = FALSE
      /\ trouble = 0
      /\ \A q \in Request : pc[q] = "idle" /\ forced[q] = FALSE
      /\ \A p \in Process : up[p] = FALSE /\ memo[p] = None
  BY DEF Init
<1>2. ServedTyped /\ AliveInv
  <2>1. goodA \in SUBSET (1..minted)
    BY <1>1
  <2>2. overlapped \in BOOLEAN /\ revoked \in BOOLEAN /\ retired \in Nat /\ trouble \in Nat
    BY <1>1
  <2>3. AliveInv
    BY <1>1 DEF AliveInv
  <2> QED
    BY <2>1, <2>2, <2>3, Zenon DEF ServedTyped
<1>3. OneProcess /\ PresentedInv /\ ForcedInv /\ NothingRemembered
  BY <1>1 DEF OneProcess, PresentedInv, ForcedInv, NothingRemembered
<1>4. OneDead
  BY <1>1 DEF OneDead
<1> QED
  BY <1>2, <1>3, <1>4 DEF ServedInv

\* Nothing makes a bad record good again.
LEMMA ServedTypedKept ==
  ASSUME AccessInv, ServedTyped, [Next]_vars
  PROVE  ServedTyped' /\ (Good' => Good)
<1> DEFINE Counts == /\ trouble' \in {trouble, trouble + 1}
                     /\ retired' \in {retired, retired + 1}
                     /\ overlapped' \in BOOLEAN /\ revoked' \in BOOLEAN
                     /\ overlapped => overlapped'
                     /\ revoked => revoked'
                     /\ minted' \in {minted, minted + 1}
                     /\ goodA' \subseteq goodA \cup (1..minted')
<1>1. Counts => ServedTyped' /\ (Good' => Good)
  <2> SUFFICES ASSUME Counts PROVE ServedTyped' /\ (Good' => Good)
    OBVIOUS
  <2>1. minted \in Nat /\ 1..minted \subseteq 1..minted'
    BY DEF AccessInv, AccessTyped
  <2>2. goodA' \in SUBSET (1..minted')
    BY <2>1 DEF ServedTyped
  <2>3. /\ trouble' \in Nat /\ retired' \in Nat
        /\ trouble' = 0 => trouble = 0
        /\ retired' <= 1 => retired <= 1
    BY DEF ServedTyped
  <2> QED
    BY <2>2, <2>3 DEF ServedTyped, Good
<1>2. minted \in Nat /\ minted + 1 \in 1..(minted + 1)
  BY DEF AccessInv, AccessTyped
<1> HIDE DEF None
<1>3. ASSUME NEW q \in Request,
             \/ Start(q) \/ Reuse(q) \/ ReplayRefusal(q) \/ TakeGate(q) \/ Refused(q) \/ Save(q)
             \/ Answered(q) \/ Unauthorized(q) \/ RefusedTwice(q)
      PROVE  Counts
  BY <1>3 DEF Start, Reuse, ReplayRefusal, TakeGate, Refused, Save, Publish, Answered,
              Unauthorized, RefusedTwice, NoTrouble, ServedTyped
<1>4. ASSUME NEW q \in Request, Unreadable(q) \/ Unreachable(q) \/ SaveFails(q)
      PROVE  Counts
  BY <1>4 DEF Unreadable, Unreachable, SaveFails, Trouble, ServedTyped
<1>5. ASSUME NEW q \in Request, Renewed(q) \/ RenewalLost(q)
      PROVE  Counts
  BY <1>2, <1>5 DEF Renewed, RenewalLost, Issue, Trouble, NoTrouble, ServedTyped
<1>6. ASSUME NEW p \in Process, Launch(p) \/ Exit(p)
      PROVE  Counts
  BY <1>6 DEF Launch, Exit, Trouble, NoTrouble, ServedTyped
<1>7. Age \/ Authorized \/ UNCHANGED vars => Counts
  BY DEF Age, Authorized, NoTrouble, ServedTyped, vars
<1>8. Revoke \/ (\E a \in Token : Retire(a)) => Counts
  <2>1. Revoke => Counts
    BY DEF Revoke, NoTrouble, ServedTyped
  <2>2. ASSUME NEW a \in Token, Retire(a) PROVE Counts
    BY <2>2 DEF Retire, NoTrouble, ServedTyped
  <2> QED
    BY <2>1, <2>2
<1>9. Consent => Counts
  BY <1>2 DEF Consent, NoTrouble, ServedTyped
<1> QED
  BY <1>1, <1>3, <1>4, <1>5, <1>6, <1>7, <1>8, <1>9 DEF Next

\* A request gets under way in a running process, and goes down with it.
LEMMA AliveIsKept ==
  ASSUME AccessInv, AliveInv, [Next]_vars
  PROVE  AliveInv'
<1> USE DEF AliveInv
<1>1. pc \in [Request -> RequestPC] /\ up \in [Process -> BOOLEAN]
  BY DEF AccessInv, AccessTyped
<1>2. ASSUME NEW q \in Request,
             \/ Start(q) \/ Reuse(q) \/ TakeGate(q) \/ Renewed(q) \/ Save(q) \/ Unauthorized(q)
      PROVE  AliveInv'
  BY <1>1, <1>2 DEF Start, Reuse, TakeGate, Renewed, Save, Publish, Unauthorized, Moves
<1>3. ASSUME NEW q \in Request,
             \/ ReplayRefusal(q) \/ Unreadable(q) \/ RenewalLost(q) \/ Unreachable(q)
             \/ SaveFails(q) \/ Answered(q) \/ RefusedTwice(q) \/ Refused(q)
      PROVE  AliveInv'
  <2>1. up' = up /\ \E p \in {"idle", "failed"} : pc' = [pc EXCEPT ![q] = p]
    BY <1>3 DEF ReplayRefusal, Unreadable, RenewalLost, Unreachable, SaveFails, Answered,
                RefusedTwice, Refused, Ends, Moves
  <2> QED
    BY <1>1, <2>1
<1>4. ASSUME NEW p \in Process, Launch(p) PROVE AliveInv'
  BY <1>1, <1>4 DEF Launch
<1>5. ASSUME NEW p \in Process, Exit(p) PROVE AliveInv'
  <2>1. /\ up' = [up EXCEPT ![p] = FALSE]
        /\ pc' = [q \in Request |-> IF Of[q] = p THEN "idle" ELSE pc[q]]
    BY <1>5 DEF Exit
  <2> QED
    BY <1>1, <2>1
<1>6. CASE \/ Age \/ Revoke \/ \E a \in Token : Retire(a)
           \/ Consent \/ Authorized \/ UNCHANGED vars
  BY <1>6 DEF Age, Revoke, Retire, Consent, Authorized, vars
<1> QED
  BY <1>2, <1>3, <1>4, <1>5, <1>6 DEF Next

\* With one process, whoever renews has its gate, and is alone.
LEMMA RenewsAlone ==
  ASSUME AccessInv, AliveInv, OneProcess
  PROVE  \A q, r \in Request : pc[q] \in Renewing /\ pc[r] \in Renewing => q = r
<1> SUFFICES ASSUME NEW q \in Request, NEW r \in Request,
                    pc[q] \in Renewing, pc[r] \in Renewing
             PROVE  q = r
  OBVIOUS
<1>1. up[Of[q]] /\ up[Of[r]]
  BY DEF AliveInv, Renewing
<1>2. Of[q] = Of[r]
  BY <1>1 DEF OneProcess
<1> QED
  BY <1>2 DEF AccessInv, GateInv

\* Refusals and failures have no place here: what is presented will be taken,
\* nothing is remembered as dead, and a forced request was given a live token.
LEMMA NobodyFails ==
  ASSUME AccessInv, ServedInv, Good, NEW q \in Request
  PROVE  ~Refused(q) /\ ~ReplayRefusal(q) /\ ~RefusedTwice(q)
<1>1. PresentedInv /\ ForcedInv /\ NothingRemembered
  BY DEF ServedInv
<1>2. ~Refused(q)
  BY <1>1 DEF Refused, PresentedInv
<1>3. ~ReplayRefusal(q)
  BY <1>1 DEF ReplayRefusal, Remembered, NothingRemembered, AccessInv, AccessTyped
<1>4. ~RefusedTwice(q)
  BY <1>1 DEF RefusedTwice, ForcedInv
<1> QED
  BY <1>2, <1>3, <1>4

LEMMA TroubleIsNotGood ==
  ASSUME ServedTyped, Good',
         \/ Revoke
         \/ \E q \in Request : Unreadable(q) \/ RenewalLost(q) \/ Unreachable(q) \/ SaveFails(q)
  PROVE  FALSE
BY DEF ServedTyped, Good, Revoke, Unreadable, RenewalLost, Unreachable, SaveFails, Trouble

\* The steps of a request, while the record is good.
LEMMA RequestKeepsCore ==
  ASSUME Inv, AccessInv, ServedInv, Good, NEW q \in Request,
         Start(q) \/ Reuse(q) \/ Answered(q) \/ Unauthorized(q)
  PROVE  Core'
<1>1. OneProcess /\ OneDead /\ PresentedInv /\ ForcedInv /\ NothingRemembered
  BY DEF ServedInv
<1>2. /\ pc \in [Request -> RequestPC] /\ token \in [Request -> 0..minted]
      /\ forced \in [Request -> BOOLEAN] /\ seen \in [Request -> Nat]
      /\ newA \in [Request -> 0..minted] /\ heldR \in [Request -> 0..minted]
      /\ storedA \in 1..minted /\ goodA \in SUBSET (1..minted)
      /\ minted \in Nat
  BY DEF AccessInv, AccessTyped, ServedInv, ServedTyped, Inv, Typed
<1>3. /\ UNCHANGED <<style, storedA, up, generation, memo, minted, goodA, goodR, consent, retired>>
      /\ \A r \in Request : pc'[r] = "save" => pc[r] = "save" /\ newA'[r] = newA[r]
  <2>1. UNCHANGED <<style, storedA, up, generation, memo, minted, goodA, goodR, consent, retired>>
    BY DEF Start, Reuse, Answered, Unauthorized
  <2>2. CASE Answered(q)
    <3>1. \A r \in Request \ {q} : pc'[r] = pc[r] /\ newA'[r] = newA[r]
      BY <1>2, <2>2 DEF Answered, Ends, Moves, Forgets
    <3>2. pc'[q] = "idle"
      BY <1>2, <2>2 DEF Answered, Ends, Moves
    <3> QED
      BY <2>1, <3>1, <3>2
  <2>3. CASE Start(q) \/ Reuse(q) \/ Unauthorized(q)
    <3>1. newA' = newA /\ \E p \in {"queue", "send"} : pc' = [pc EXCEPT ![q] = p]
      BY <2>3 DEF Start, Reuse, Unauthorized, Moves
    <3> QED
      BY <1>2, <2>1, <3>1
  <2> QED
    BY <2>2, <2>3
<1>4. OneProcess' /\ OneDead' /\ NothingRemembered'
  BY <1>1, <1>3 DEF OneProcess, OneDead, NothingRemembered
<1>5. \A r \in Request \ {q} :
        /\ pc'[r] = pc[r] /\ token'[r] = token[r] /\ forced'[r] = forced[r]
        /\ seen'[r] = seen[r] /\ heldR'[r] = heldR[r]
  BY <1>2 DEF Start, Reuse, Answered, Unauthorized, Ends, Moves, Forgets
<1>6. CASE Start(q)
  <2>1. pc[q] \in {"idle", "failed"} /\ pc'[q] = "queue" /\ forced'[q] = forced[q]
        /\ ~forced[q]
    BY <1>1, <1>2, <1>6 DEF Start, Moves, ForcedInv
  <2>2. PresentedInv' /\ ForcedInv'
    BY <1>1, <1>3, <1>5, <2>1 DEF PresentedInv, ForcedInv
  <2> QED
    BY <1>4, <2>2 DEF Core
<1>7. CASE Answered(q)
  <2>1. pc'[q] = "idle" /\ forced'[q] = FALSE
    BY <1>2, <1>7 DEF Answered, Ends, Moves, Forgets
  <2>2. PresentedInv' /\ ForcedInv'
    BY <1>1, <1>3, <1>5, <2>1 DEF PresentedInv, ForcedInv
  <2> QED
    BY <1>4, <2>2 DEF Core
<1>8. CASE Reuse(q)
  <2>1. /\ pc[q] = "queue" /\ Fresh(q)
        /\ pc'[q] = "send" /\ forced'[q] = forced[q] /\ token'[q] = storedA
    BY <1>2, <1>8 DEF Reuse, Moves
  <2>2. forced[q] => storedA \in goodA
    <3> SUFFICES ASSUME forced[q] PROVE storedA \in goodA
      OBVIOUS
    <3>1. CASE style = "fortnox"
      BY <1>1, <2>1, <3>1 DEF Fresh, ForcedInv
    <3>2. CASE style # "fortnox"
      <4>1. token[q] \in 1..minted /\ token[q] \notin goodA /\ storedA # token[q]
        BY <1>1, <1>2, <2>1, <3>2 DEF Fresh, ForcedInv
      <4> QED
        BY <1>1, <1>2, <4>1 DEF OneDead
    <3> QED
      BY <3>1, <3>2
  <2>3. PresentedInv'
    BY <1>1, <1>2, <1>3, <1>5, <2>1 DEF PresentedInv
  <2>4. ForcedInv'
    BY <1>1, <1>3, <1>5, <2>1, <2>2 DEF ForcedInv
  <2> QED
    BY <1>4, <2>3, <2>4 DEF Core
<1>9. CASE Unauthorized(q)
  <2>1. /\ pc[q] = "send" /\ token[q] \notin goodA /\ token[q] \in 1..minted
        /\ pc'[q] = "queue" /\ forced'[q] = TRUE
        /\ seen'[q] = Counter(Of[q])
        /\ style # "fortnox" => token'[q] = token[q]
    BY <1>1, <1>2, <1>9 DEF Unauthorized, Moves, PresentedInv
  <2>2. retired > 0
    <3>1. goodA # 1..minted
      BY <2>1
    <3> QED
      BY <1>1, <3>1 DEF OneDead, ServedInv, ServedTyped
  <2>3. Known(token[q])
    BY DEF Known
  <2>4. ASSUME NEW r \in Request, pc[r] = "save" PROVE newA[r] \in goodA
    <3>1. newA[r] # None /\ newA[r] # token[q]
      BY <2>3, <2>4 DEF AccessInv, SealedInv
    <3>2. newA[r] \in 1..minted
      BY <1>2, <3>1
    <3> QED
      BY <1>1, <2>1, <3>1, <3>2 DEF OneDead
  <2>5. consent # None => consent \in goodA
    BY <1>1, <1>2, <2>1, <2>3 DEF AccessInv, AccessTyped, SealedInv, OneDead
  <2>6. PresentedInv'
    BY <1>1, <1>3, <1>5, <2>1 DEF PresentedInv
  <2>7. ForcedInv'
    <3> SUFFICES ASSUME NEW r \in Request, forced'[r]
                 PROVE  /\ pc'[r] \notin {"idle", "failed"}
                        /\ pc'[r] = "send" => token'[r] \in goodA
                        /\ pc'[r] = "queue" =>
                             IF style = "fortnox"
                             THEN generation[Of[r]] # seen'[r] => storedA \in goodA
                             ELSE token'[r] # None /\ token'[r] \notin goodA
      BY <1>3, <2>2, <2>4, <2>5 DEF ForcedInv
    <3>1. CASE r = q
      BY <2>1, <3>1 DEF Counter
    <3>2. CASE r # q
      BY <1>1, <1>5, <3>2 DEF ForcedInv
    <3> QED
      BY <3>1, <3>2
  <2> QED
    BY <1>4, <2>6, <2>7 DEF Core
<1> QED
  BY <1>6, <1>7, <1>8, <1>9

LEMMA TakeGateKeepsCore ==
  ASSUME Inv, AccessInv, ServedInv, Good, NEW q \in Request, TakeGate(q)
  PROVE  Core'
<1>1. OneProcess /\ OneDead /\ PresentedInv /\ ForcedInv /\ NothingRemembered /\ AliveInv
  BY DEF ServedInv
<1>2. /\ pc[q] = "queue" /\ gate[Of[q]] = Nobody
      /\ pc' = [pc EXCEPT ![q] = "refresh"] /\ heldR' = [heldR EXCEPT ![q] = storedR]
      /\ UNCHANGED <<style, storedA, up, generation, memo, token, forced, seen, newA, minted,
                     goodA, goodR, consent, retired>>
  BY DEF TakeGate, GateIsFree, Moves
<1>3. /\ \A r \in Request \ {q} : pc'[r] = pc[r] /\ heldR'[r] = heldR[r]
      /\ pc'[q] = "refresh" /\ heldR'[q] = storedR
  BY <1>2 DEF Inv, Typed
\* Were the stored token spent, somebody would be about to write its successor,
\* and would have the gate.
<1>4. storedR \in goodR
  <2>1. storedR \in goodR \/ \E r \in Request : pc[r] = "save"
    BY DEF Inv, Calm, Good, Kept
  <2>2. ASSUME NEW r \in Request, pc[r] = "save" PROVE FALSE
    <3>1. up[Of[r]] /\ up[Of[q]] /\ gate[Of[r]] = r
      BY <1>1, <1>2, <2>2 DEF AliveInv, AccessInv, GateInv, Renewing
    <3>2. Of[r] = Of[q]
      BY <1>1, <3>1 DEF OneProcess
    <3> QED
      BY <1>2, <3>1, <3>2
  <2> QED
    BY <2>1, <2>2
<1>5. OneProcess' /\ OneDead' /\ NothingRemembered'
  BY <1>1, <1>2 DEF OneProcess, OneDead, NothingRemembered
<1>6. PresentedInv'
  BY <1>1, <1>2, <1>3, <1>4 DEF PresentedInv
<1>7. ForcedInv'
  BY <1>1, <1>2, <1>3 DEF ForcedInv
<1> QED
  BY <1>5, <1>6, <1>7 DEF Core

LEMMA RenewedKeepsCore ==
  ASSUME Inv, AccessInv, ServedInv, Good, NEW q \in Request, Renewed(q)
  PROVE  Core'
<1> DEFINE n == minted + 1
<1>1. OneProcess /\ OneDead /\ PresentedInv /\ ForcedInv /\ NothingRemembered /\ AliveInv
  BY DEF ServedInv
<1>2. /\ pc[q] = "refresh" /\ pc' = [pc EXCEPT ![q] = "save"]
      /\ newA' = [newA EXCEPT ![q] = n]
      /\ goodA' = goodA \cup {n} /\ minted' = n
      /\ UNCHANGED <<style, storedA, up, generation, memo, token, forced, seen, heldR, consent,
                     retired>>
  BY DEF Renewed, Issue, Moves
<1>3. /\ \A r \in Request \ {q} : pc'[r] = pc[r] /\ newA'[r] = newA[r]
      /\ pc'[q] = "save" /\ newA'[q] = n
  BY <1>2 DEF AccessInv, AccessTyped
<1>4. minted \in Nat /\ goodA \in SUBSET (1..minted) /\ token \in [Request -> 0..minted]
      /\ 1..n = (1..minted) \cup {n}
  <2>1. minted \in Nat /\ goodA \in SUBSET (1..minted) /\ token \in [Request -> 0..minted]
    BY DEF AccessInv, AccessTyped, ServedInv, ServedTyped
  <2>2. 1..n = (1..minted) \cup {n}
    BY <2>1
  <2> QED
    BY <2>1, <2>2
<1>5. \A r \in Request : pc'[r] # "refresh"
  BY <1>1, <1>2, <1>3, RenewsAlone DEF Renewing
<1>6. OneProcess' /\ NothingRemembered'
  BY <1>1, <1>2 DEF OneProcess, NothingRemembered
<1>7. OneDead'
  BY <1>1, <1>2, <1>4 DEF OneDead
<1>8. PresentedInv'
  BY <1>1, <1>2, <1>3, <1>5 DEF PresentedInv
<1>9. ForcedInv'
  BY <1>1, <1>2, <1>3, <1>4 DEF ForcedInv
<1> QED
  BY <1>6, <1>7, <1>8, <1>9 DEF Core

LEMMA SaveKeepsCore ==
  ASSUME Inv, AccessInv, ServedInv, Good, NEW q \in Request, Save(q)
  PROVE  Core'
<1> DEFINE p == Of[q]
<1>1. OneProcess /\ OneDead /\ PresentedInv /\ ForcedInv /\ NothingRemembered /\ AliveInv
  BY DEF ServedInv
<1>2. /\ pc[q] = "save" /\ pc' = [pc EXCEPT ![q] = "send"]
      /\ storedA' = newA[q] /\ token' = [token EXCEPT ![q] = newA[q]]
      /\ memo' = [memo EXCEPT ![p] = None]
      /\ seen' = [seen EXCEPT ![q] = 0]
      /\ heldR' = [heldR EXCEPT ![q] = None] /\ newA' = [newA EXCEPT ![q] = None]
      /\ UNCHANGED <<style, up, forced, minted, goodA, goodR, consent, retired>>
  BY DEF Save, Publish, Moves
<1>3. /\ \A r \in Request \ {q} :
           /\ pc'[r] = pc[r] /\ token'[r] = token[r] /\ seen'[r] = seen[r]
           /\ heldR'[r] = heldR[r] /\ newA'[r] = newA[r]
      /\ pc'[q] = "send" /\ token'[q] = newA[q]
  BY <1>2 DEF AccessInv, AccessTyped, Inv, Typed
<1>4. newA[q] # None
  BY <1>2 DEF AccessInv, SealedInv
<1>5. NothingRemembered'
  BY <1>1, <1>2 DEF NothingRemembered, AccessInv, AccessTyped
<1>6. OneProcess' /\ OneDead'
  BY <1>1, <1>2 DEF OneProcess, OneDead
<1>7. PresentedInv'
  BY <1>1, <1>2, <1>3, <1>4 DEF PresentedInv
<1>8. ForcedInv'
  <2> SUFFICES ASSUME NEW r \in Request, forced[r]
               PROVE  /\ pc'[r] \notin {"idle", "failed"} /\ retired > 0
                      /\ \A x \in Request : pc'[x] = "save" => newA'[x] \in goodA
                      /\ consent # None => consent \in goodA
                      /\ pc'[r] = "send" => token'[r] \in goodA
                      /\ storedA' \in goodA
                      /\ pc'[r] = "queue" /\ style # "fortnox" =>
                           token'[r] # None /\ token'[r] \notin goodA
    BY <1>2 DEF ForcedInv
  <2>1. /\ newA[q] \in goodA /\ retired > 0 /\ pc[r] \notin {"idle", "failed"}
        /\ \A x \in Request : pc'[x] = "save" => newA'[x] \in goodA
        /\ consent # None => consent \in goodA
    BY <1>1, <1>2, <1>3 DEF ForcedInv
  <2>2. CASE r = q
    BY <1>2, <1>3, <2>1, <2>2
  <2>3. CASE r # q
    BY <1>1, <1>2, <1>3, <2>1, <2>3 DEF ForcedInv
  <2> QED
    BY <2>2, <2>3
<1> QED
  BY <1>5, <1>6, <1>7, <1>8 DEF Core

LEMMA ProcessKeepsCore ==
  ASSUME AccessInv, ServedInv, Good, Good', NEW p \in Process, Launch(p) \/ Exit(p)
  PROVE  Core'
<1>1. OneProcess /\ OneDead /\ PresentedInv /\ ForcedInv /\ NothingRemembered
  BY DEF ServedInv
<1>2. CASE Launch(p)
  <2>1. /\ up' = [up EXCEPT ![p] = TRUE]
        /\ \A o \in Process : o # p => ~up[o]
        /\ UNCHANGED <<style, storedA, generation, memo, requestVars, minted, goodA, goodR,
                       consent, retired>>
    BY <1>2 DEF Launch, Good
  <2>2. OneProcess'
    BY <2>1 DEF OneProcess, AccessInv, AccessTyped
  <2>3. OneDead' /\ PresentedInv' /\ ForcedInv' /\ NothingRemembered'
    BY <1>1, <2>1 DEF OneDead, PresentedInv, ForcedInv, NothingRemembered
  <2> QED
    BY <2>2, <2>3 DEF Core
<1>3. CASE Exit(p)
  <2>1. /\ up' = [up EXCEPT ![p] = FALSE] /\ memo' = [memo EXCEPT ![p] = None]
        /\ generation' = [generation EXCEPT ![p] = 0]
        /\ pc' = [q \in Request |-> IF Of[q] = p THEN "idle" ELSE pc[q]]
        /\ token' = [q \in Request |-> IF Of[q] = p THEN None ELSE token[q]]
        /\ forced' = [q \in Request |-> forced[q] /\ Of[q] # p]
        /\ seen' = [q \in Request |-> IF Of[q] = p THEN 0 ELSE seen[q]]
        /\ heldR' = [q \in Request |-> IF Of[q] = p THEN None ELSE heldR[q]]
        /\ newA' = [q \in Request |-> IF Of[q] = p THEN None ELSE newA[q]]
        /\ UNCHANGED <<style, storedA, minted, goodA, goodR, consent, retired>>
    BY <1>3 DEF Exit
  <2>2. \A q \in Request : Of[q] # p =>
          /\ pc'[q] = pc[q] /\ token'[q] = token[q] /\ forced'[q] = forced[q]
          /\ seen'[q] = seen[q] /\ heldR'[q] = heldR[q] /\ newA'[q] = newA[q]
          /\ generation'[Of[q]] = generation[Of[q]]
    BY <2>1 DEF AccessInv, AccessTyped
  <2>3. \A q \in Request : Of[q] = p => pc'[q] = "idle" /\ forced'[q] = FALSE
    BY <2>1
  <2>4. OneProcess' /\ NothingRemembered'
    BY <1>1, <2>1 DEF OneProcess, NothingRemembered, AccessInv, AccessTyped
  <2>5. OneDead'
    BY <1>1, <2>1 DEF OneDead
  <2>6. PresentedInv'
    BY <1>1, <2>1, <2>2, <2>3 DEF PresentedInv
  <2>7. ForcedInv'
    BY <1>1, <2>1, <2>2, <2>3 DEF ForcedInv
  <2> QED
    BY <2>4, <2>5, <2>6, <2>7 DEF Core
<1> QED
  BY <1>2, <1>3

\* The one token that dies does so before any request was forced.
LEMMA WorldKeepsCore ==
  ASSUME AccessInv, ServedInv, Good, Good',
         \/ Age \/ \E a \in Token : Retire(a)
         \/ Consent \/ Authorized \/ UNCHANGED vars
  PROVE  Core'
<1>1. OneProcess /\ OneDead /\ PresentedInv /\ ForcedInv /\ NothingRemembered
  BY DEF ServedInv
<1>2. minted \in Nat /\ goodA \in SUBSET (1..minted) /\ retired \in Nat
  BY DEF AccessInv, AccessTyped, ServedInv, ServedTyped
<1>3. CASE Age \/ UNCHANGED vars
  <2>1. UNCHANGED <<style, storedA, memoryVars, requestVars, providerVars, consent, retired>>
    BY <1>3 DEF Age, vars
  <2> QED
    BY <1>1, <2>1 DEF Core, OneProcess, OneDead, PresentedInv, ForcedInv, NothingRemembered
<1>4. CASE \E a \in Token : Retire(a)
  <2>1. PICK a \in Token : Retire(a)
    BY <1>4
  <2>2. /\ goodA' = goodA \ {a} /\ retired' = retired + 1
        /\ UNCHANGED <<style, storedA, memoryVars, requestVars, minted, goodR, consent>>
    BY <2>1 DEF Retire
  <2>3. retired = 0 /\ retired' = 1 /\ goodA = 1..minted
    BY <1>1, <1>2, <2>2 DEF Good, OneDead
  <2>4. \A q \in Request : ~forced[q]
    BY <1>1, <2>3 DEF ForcedInv
  <2>5. OneDead'
    BY <2>2, <2>3 DEF OneDead
  <2>6. OneProcess' /\ PresentedInv' /\ ForcedInv' /\ NothingRemembered'
    BY <1>1, <2>2, <2>4 DEF OneProcess, PresentedInv, ForcedInv, NothingRemembered
  <2> QED
    BY <2>5, <2>6 DEF Core
<1>5. CASE Consent
  <2> DEFINE n == minted + 1
  <2>1. /\ minted' = n /\ goodA' = goodA \cup {n} /\ goodR' = goodR \cup {n} /\ consent' = n
        /\ UNCHANGED <<style, storedA, memoryVars, requestVars, retired>>
    BY <1>5 DEF Consent
  <2>2. 1..n = (1..minted) \cup {n} /\ \A q \in Request : token[q] # n
    <3>1. 1..n = (1..minted) \cup {n}
      BY <1>2
    <3>2. \A q \in Request : token[q] \in 0..minted
      BY DEF AccessInv, AccessTyped
    <3> QED
      BY <1>2, <3>1, <3>2
  <2>3. OneDead'
    BY <1>1, <2>1, <2>2 DEF OneDead
  <2>4. OneProcess' /\ PresentedInv' /\ NothingRemembered'
    BY <1>1, <2>1 DEF OneProcess, PresentedInv, NothingRemembered
  <2>5. ForcedInv'
    BY <1>1, <2>1, <2>2 DEF ForcedInv
  <2> QED
    BY <2>3, <2>4, <2>5 DEF Core
<1>6. CASE Authorized
  <2>1. /\ consent # None /\ storedA' = consent /\ consent' = None
        /\ UNCHANGED <<style, memoryVars, requestVars, providerVars, retired>>
    BY <1>6 DEF Authorized
  <2>2. OneDead' /\ OneProcess' /\ PresentedInv' /\ NothingRemembered'
    BY <1>1, <2>1 DEF OneDead, OneProcess, PresentedInv, NothingRemembered
  <2>3. ForcedInv'
    BY <1>1, <2>1 DEF ForcedInv
  <2> QED
    BY <2>2, <2>3 DEF Core
<1> QED
  BY <1>3, <1>4, <1>5, <1>6

LEMMA ServedIsKept == Inv /\ AccessInv /\ ServedInv /\ [Next]_vars => ServedInv'
<1> SUFFICES ASSUME Inv, AccessInv, ServedInv, [Next]_vars PROVE ServedInv'
  OBVIOUS
<1>1. ServedTyped' /\ (Good' => Good) /\ AliveInv'
  BY ServedTypedKept, AliveIsKept DEF ServedInv
<1>2. SUFFICES ASSUME Good' PROVE Core'
  BY <1>1 DEF ServedInv, Core
<1>3. Good /\ ServedTyped
  BY <1>1, <1>2 DEF ServedInv
<1>4. ASSUME NEW q \in Request,
             \/ Start(q) \/ Reuse(q) \/ Answered(q) \/ Unauthorized(q)
             \/ TakeGate(q) \/ Renewed(q) \/ Save(q)
      PROVE  Core'
  BY <1>3, <1>4, RequestKeepsCore, TakeGateKeepsCore, RenewedKeepsCore, SaveKeepsCore
<1>5. ASSUME NEW q \in Request, Refused(q) \/ ReplayRefusal(q) \/ RefusedTwice(q)
      PROVE  Core'
  BY <1>3, <1>5, NobodyFails
<1>6. ASSUME NEW q \in Request,
             Unreadable(q) \/ RenewalLost(q) \/ Unreachable(q) \/ SaveFails(q)
      PROVE  Core'
  BY <1>2, <1>3, <1>6, TroubleIsNotGood
<1>7. CASE Revoke
  BY <1>2, <1>3, <1>7, TroubleIsNotGood
<1>8. ASSUME NEW p \in Process, Launch(p) \/ Exit(p) PROVE Core'
  BY <1>2, <1>3, <1>8, ProcessKeepsCore
<1>9. CASE \/ Age \/ \E a \in Token : Retire(a)
           \/ Consent \/ Authorized \/ UNCHANGED vars
  BY <1>2, <1>3, <1>9, WorldKeepsCore
<1> QED
  BY <1>4, <1>5, <1>6, <1>7, <1>8, <1>9 DEF Next

\* An access token retired before its time fails no request, of any number in
\* flight: the one forced renewal, shared, gives each of them a live one
\* (refresh_after_unauthorized).
THEOREM RetiredTokenIsNoFailureHolds == Spec => []RetiredTokenIsNoFailure
<1>1. ServedInv => RetiredTokenIsNoFailure
  BY DEF ServedInv, ServedTyped, Good, PresentedInv, RetiredTokenIsNoFailure
<1>2. Spec => []Inv
  <2> HIDE DEF Inv
  <2> QED
    BY InvInit, InvIsKept, PTL DEF Spec
<1> HIDE DEF Inv, AccessInv, ServedInv
<1> QED
  BY ServedInit, ServedIsKept, AccessHolds, <1>1, <1>2, PTL DEF Spec
=============================================================================
