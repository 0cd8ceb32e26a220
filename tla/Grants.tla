-------------------------------- MODULE Grants ---------------------------------
(***************************************************************************)
(* The OAuth token managers of the connectors.  Each request asks for an   *)
(* access token, may have to renew it with the refresh token both of which *)
(* are kept in one file, and if it is refused with a 401 forces one        *)
(* renewal and tries once more.                                            *)
(*                                                                         *)
(* Three styles of one protocol: "fortnox" tells by a generation counter   *)
(* that somebody renewed while it waited, "google" and "kth" by comparing  *)
(* the stored token with the refused one; these two also remember a grant  *)
(* the provider called dead.  Fortnox and Microsoft rotate the refresh     *)
(* token: the one presented is spent.                                      *)
(*                                                                         *)
(* Processes share nothing but the file: a connector's child may overlap   *)
(* the one that replaces it, and `authorize` runs beside both.             *)
(***************************************************************************)
EXTENDS Integers, FiniteSets

CONSTANTS
  Process,
  Request,
  Of,           \* the process a request is served in
  Nobody,       \* the gate is free
  Styles,       \* the token managers to be considered
  MaxToken,     \* bound: token pairs the provider ever issues
  MaxTrouble    \* bound: faults, exits with a renewal in hand, tokens retired
                \* before their time and grants withdrawn

Style == {"fortnox", "google", "kth"}
Token == 1..MaxToken
None == 0

ASSUME GrantsAssumption ==
  /\ Of \in [Request -> Process] /\ Nobody \notin Request
  /\ Styles \subseteq Style
  /\ MaxToken \in Nat \ {0} /\ MaxTrouble \in Nat

VARIABLES
  style,
  \* durable: the token file
  storedA, storedR,
  stale,       \* the stored access token is within the margin of its expiry
  \* in memory, per process
  up, gate, generation, memo,
  \* per request
  pc, token, forced, seen, heldA, heldR, newA, newR,
  \* the provider
  minted, goodA, goodR,
  \* `authorize`, between the exchange of its code and the write
  consent,
  \* history and bounds
  covered,     \* somebody renewed while this request waited for the gate, and
               \* what they wrote had not aged when it got in
  refused,     \* access tokens whose renewal the provider refused to a process
  overlapped,  \* two processes have served this account at once
  retired, revoked, trouble

fileVars == <<storedA, storedR, stale>>
memoryVars == <<up, gate, generation, memo>>
requestVars == <<pc, token, forced, seen, heldA, heldR, newA, newR>>
providerVars == <<minted, goodA, goodR>>
historyVars == <<covered, refused, overlapped, retired, revoked>>

vars == <<style, fileVars, memoryVars, requestVars, providerVars, consent,
          historyVars, trouble>>

RequestPC == {"idle", "queue", "refresh", "save", "send", "failed"}

Init ==
  /\ style \in Styles
  /\ storedA = 1 /\ storedR = 1
  /\ up = [p \in Process |-> FALSE]
  /\ gate = [p \in Process |-> Nobody]
  /\ generation = [p \in Process |-> 0]
  /\ memo = [p \in Process |-> None]
  /\ pc = [q \in Request |-> "idle"]
  /\ token = [q \in Request |-> None]
  /\ forced = [q \in Request |-> FALSE]
  /\ seen = [q \in Request |-> 0]
  /\ heldA = [q \in Request |-> None] /\ heldR = [q \in Request |-> None]
  /\ newA = [q \in Request |-> None] /\ newR = [q \in Request |-> None]
  /\ minted = 1 /\ goodA = {1} /\ goodR = {1}
  /\ stale = FALSE
  /\ consent = None
  /\ covered = [q \in Request |-> FALSE]
  /\ refused = [p \in Process |-> {}]
  /\ overlapped = FALSE
  /\ retired = 0 /\ revoked = FALSE /\ trouble = 0

InBounds == trouble + retired + (IF revoked THEN 1 ELSE 0) < MaxTrouble
Trouble == InBounds /\ trouble' = trouble + 1
NoTrouble == UNCHANGED trouble

Moves(q, p) == pc' = [pc EXCEPT ![q] = p]

\* What a request forgets when it is over, or when it gives up.
Forgets(q) ==
  /\ token' = [token EXCEPT ![q] = None]
  /\ forced' = [forced EXCEPT ![q] = FALSE]
  /\ seen' = [seen EXCEPT ![q] = 0]
  /\ heldA' = [heldA EXCEPT ![q] = None] /\ heldR' = [heldR EXCEPT ![q] = None]
  /\ newA' = [newA EXCEPT ![q] = None] /\ newR' = [newR EXCEPT ![q] = None]
  /\ covered' = [covered EXCEPT ![q] = FALSE]

Ends(q, p) == Moves(q, p) /\ Forgets(q)

\* Only Fortnox's manager counts.
Counter(p) == IF style = "fortnox" THEN generation[p] ELSE 0

-----------------------------------------------------------------------------
(* access_token and refresh_after_unauthorized                              *)

Start(q) ==
  /\ up[Of[q]]
  /\ pc[q] \in {"idle", "failed"}
  /\ Moves(q, "queue")
  /\ seen' = [seen EXCEPT ![q] = Counter(Of[q])]
  /\ NoTrouble
  /\ UNCHANGED <<style, fileVars, memoryVars, token, forced, heldA, heldR, newA, newR,
                 providerVars, consent, historyVars>>

\* Mutant: no lock.
Ungated(p) == TRUE

GateIsFree(p) == gate[p] = Nobody

\* Mutant: a forced caller always renews.
FreshUnlessForced(q) == ~forced[q] /\ ~stale

\* The stored token will do.
Fresh(q) ==
  IF style = "fortnox"
  THEN /\ forced[q] => generation[Of[q]] # seen[q]
       /\ ~stale
  ELSE IF forced[q] THEN storedA # token[q] ELSE ~stale

\* Mutant: nothing is remembered.
NotRemembered(p) == FALSE

\* remembered_invalid_grant
Remembered(p) == style # "fortnox" /\ memo[p] = storedA

\* The file is read inside the lock, every time.
Reuse(q) ==
  /\ pc[q] = "queue"
  /\ GateIsFree(Of[q])
  /\ Fresh(q)
  /\ token' = [token EXCEPT ![q] = storedA]
  /\ seen' = [seen EXCEPT ![q] = 0]
  /\ covered' = [covered EXCEPT ![q] = FALSE]
  /\ Moves(q, "send")
  /\ NoTrouble
  /\ UNCHANGED <<style, fileVars, memoryVars, forced, heldA, heldR, newA, newR, providerVars,
                 consent, refused, overlapped, retired, revoked>>

ReplayRefusal(q) ==
  /\ pc[q] = "queue"
  /\ GateIsFree(Of[q])
  /\ ~Fresh(q)
  /\ Remembered(Of[q])
  /\ Ends(q, "failed")
  /\ NoTrouble
  /\ UNCHANGED <<style, fileVars, memoryVars, providerVars, consent, refused,
                 overlapped, retired, revoked>>

\* Missing, corrupt, or not readable.
Unreadable(q) ==
  /\ pc[q] = "queue"
  /\ GateIsFree(Of[q])
  /\ Ends(q, "failed")
  /\ Trouble
  /\ UNCHANGED <<style, fileVars, memoryVars, providerVars, consent, refused,
                 overlapped, retired, revoked>>

TakeGate(q) ==
  /\ pc[q] = "queue"
  /\ GateIsFree(Of[q])
  /\ ~Fresh(q)
  /\ ~Remembered(Of[q])
  /\ gate' = [gate EXCEPT ![Of[q]] = q]
  /\ heldA' = [heldA EXCEPT ![q] = storedA]
  /\ heldR' = [heldR EXCEPT ![q] = storedR]
  /\ covered' = [covered EXCEPT ![q] = @ /\ ~stale]
  /\ Moves(q, "refresh")
  /\ NoTrouble
  /\ UNCHANGED <<style, fileVars, up, generation, memo, token, forced, seen, newA, newR,
                 providerVars, consent, refused, overlapped, retired, revoked>>

-----------------------------------------------------------------------------
(* The renewal                                                              *)

LeaveGate(q) == gate' = [gate EXCEPT ![Of[q]] = Nobody]

Rotates == style # "google"

\* The provider issues a pair.  If it rotates, what was presented is spent.
Issue(q) ==
  /\ heldR[q] \in goodR
  /\ minted < MaxToken
  /\ minted' = minted + 1
  /\ goodA' = goodA \cup {minted + 1}
  /\ goodR' = IF Rotates THEN (goodR \ {heldR[q]}) \cup {minted + 1} ELSE goodR

Renewed(q) ==
  /\ pc[q] = "refresh"
  /\ Issue(q)
  /\ newA' = [newA EXCEPT ![q] = minted + 1]
  /\ newR' = [newR EXCEPT ![q] = IF Rotates THEN minted + 1 ELSE heldR[q]]
  /\ Moves(q, "save")
  /\ NoTrouble
  /\ UNCHANGED <<style, fileVars, memoryVars, token, forced, seen, heldA, heldR, consent, historyVars>>

\* The pair is issued and the answer lost, or its refresh token is blank and
\* refused: nothing is written.
RenewalLost(q) ==
  /\ pc[q] = "refresh"
  /\ Issue(q)
  /\ LeaveGate(q)
  /\ Ends(q, "failed")
  /\ Trouble
  /\ UNCHANGED <<style, fileVars, up, generation, memo, consent, refused, overlapped,
                 retired, revoked>>

\* The provider is not reached.
Unreachable(q) ==
  /\ pc[q] = "refresh"
  /\ LeaveGate(q)
  /\ Ends(q, "failed")
  /\ Trouble
  /\ UNCHANGED <<style, fileVars, up, generation, memo, providerVars, consent, refused,
                 overlapped, retired, revoked>>

\* invalid_grant: remembered against the access token it was asked with.
Refused(q) ==
  /\ pc[q] = "refresh"
  /\ heldR[q] \notin goodR
  /\ memo' = [memo EXCEPT ![Of[q]] = IF style = "fortnox" THEN @ ELSE heldA[q]]
  /\ refused' = [refused EXCEPT ![Of[q]] = IF style = "fortnox" THEN @ ELSE @ \cup {heldA[q]}]
  /\ LeaveGate(q)
  /\ Ends(q, "failed")
  /\ NoTrouble
  /\ UNCHANGED <<style, fileVars, up, generation, providerVars, consent, overlapped,
                 retired, revoked>>

\* What follows a write: the counter moves, the memory of a dead grant goes, and
\* everyone waiting will find a new token.
Publish(q) ==
  /\ pc[q] = "save"
  /\ generation' = [generation EXCEPT ![Of[q]] = IF style = "fortnox" THEN @ + 1 ELSE @]
  /\ memo' = [memo EXCEPT ![Of[q]] = None]
  /\ token' = [token EXCEPT ![q] = newA[q]]
  /\ seen' = [seen EXCEPT ![q] = 0]
  /\ heldA' = [heldA EXCEPT ![q] = None] /\ heldR' = [heldR EXCEPT ![q] = None]
  /\ newA' = [newA EXCEPT ![q] = None] /\ newR' = [newR EXCEPT ![q] = None]
  /\ covered' = [r \in Request |-> IF pc[r] = "queue" /\ Of[r] = Of[q]
                                   THEN TRUE ELSE covered[r] /\ r # q]
  /\ LeaveGate(q)
  /\ Moves(q, "send")
  /\ NoTrouble
  /\ UNCHANGED <<style, up, forced, providerVars, consent, refused, overlapped,
                 retired, revoked>>

\* Mutant: the new pair stays in memory.
SaveNothing(q) == Publish(q) /\ UNCHANGED fileVars

\* Written before it is used, whole: a temporary file and a rename.
Save(q) ==
  /\ Publish(q)
  /\ storedA' = newA[q]
  /\ storedR' = newR[q]
  /\ stale' = FALSE

SaveFails(q) ==
  /\ pc[q] = "save"
  /\ LeaveGate(q)
  /\ Ends(q, "failed")
  /\ Trouble
  /\ UNCHANGED <<style, fileVars, up, generation, memo, providerVars, consent, refused,
                 overlapped, retired, revoked>>

-----------------------------------------------------------------------------
(* The request itself                                                       *)

Answered(q) ==
  /\ pc[q] = "send"
  /\ token[q] \in goodA
  /\ Ends(q, "idle")
  /\ NoTrouble
  /\ UNCHANGED <<style, fileVars, memoryVars, providerVars, consent, refused,
                 overlapped, retired, revoked>>

\* A first 401 forces a renewal.
Unauthorized(q) ==
  /\ pc[q] = "send"
  /\ token[q] \notin goodA
  /\ ~forced[q]
  /\ forced' = [forced EXCEPT ![q] = TRUE]
  /\ token' = [token EXCEPT ![q] = IF style = "fortnox" THEN None ELSE @]
  /\ seen' = [seen EXCEPT ![q] = Counter(Of[q])]
  /\ Moves(q, "queue")
  /\ NoTrouble
  /\ UNCHANGED <<style, fileVars, memoryVars, heldA, heldR, newA, newR, providerVars,
                 consent, historyVars>>

\* A second is final.
RefusedTwice(q) ==
  /\ pc[q] = "send"
  /\ token[q] \notin goodA
  /\ forced[q]
  /\ Ends(q, "failed")
  /\ NoTrouble
  /\ UNCHANGED <<style, fileVars, memoryVars, providerVars, consent, refused,
                 overlapped, retired, revoked>>

-----------------------------------------------------------------------------
(* Processes, the provider, the owner                                       *)

Launch(p) ==
  /\ ~up[p]
  /\ up' = [up EXCEPT ![p] = TRUE]
  /\ overlapped' = (overlapped \/ \E o \in Process : o # p /\ up[o])
  /\ NoTrouble
  /\ UNCHANGED <<style, fileVars, gate, generation, memo, requestVars, providerVars, consent, covered, refused, retired, revoked>>

\* A child is killed, told to stop, or replaced.
Exit(p) ==
  LET mine == {q \in Request : Of[q] = p} IN
  /\ up[p]
  /\ up' = [up EXCEPT ![p] = FALSE]
  /\ gate' = [gate EXCEPT ![p] = Nobody]
  /\ generation' = [generation EXCEPT ![p] = 0]
  /\ memo' = [memo EXCEPT ![p] = None]
  /\ refused' = [refused EXCEPT ![p] = {}]
  /\ pc' = [q \in Request |-> IF q \in mine THEN "idle" ELSE pc[q]]
  /\ token' = [q \in Request |-> IF q \in mine THEN None ELSE token[q]]
  /\ forced' = [q \in Request |-> forced[q] /\ q \notin mine]
  /\ seen' = [q \in Request |-> IF q \in mine THEN 0 ELSE seen[q]]
  /\ heldA' = [q \in Request |-> IF q \in mine THEN None ELSE heldA[q]]
  /\ heldR' = [q \in Request |-> IF q \in mine THEN None ELSE heldR[q]]
  /\ newA' = [q \in Request |-> IF q \in mine THEN None ELSE newA[q]]
  /\ newR' = [q \in Request |-> IF q \in mine THEN None ELSE newR[q]]
  /\ covered' = [q \in Request |-> covered[q] /\ q \notin mine]
  /\ IF \E q \in mine : pc[q] = "save" THEN Trouble ELSE NoTrouble
  /\ UNCHANGED <<style, fileVars, providerVars, consent, overlapped, retired, revoked>>

\* The stored token comes within the margin of its expiry.
Age ==
  /\ ~stale
  /\ stale' = TRUE
  /\ NoTrouble
  /\ UNCHANGED <<style, storedA, storedR, memoryVars, requestVars, providerVars, consent,
                 historyVars>>

\* An access token dies on the provider's side.
Retire(a) ==
  /\ InBounds
  /\ a \in goodA
  /\ goodA' = goodA \ {a}
  /\ retired' = retired + 1
  /\ NoTrouble
  /\ UNCHANGED <<style, fileVars, memoryVars, requestVars, minted, goodR, consent,
                 covered, refused, overlapped, revoked>>

\* The owner withdraws the grant.
Revoke ==
  /\ ~revoked
  /\ InBounds
  /\ revoked' = TRUE
  /\ goodA' = {} /\ goodR' = {}
  /\ NoTrouble
  /\ UNCHANGED <<style, fileVars, memoryVars, requestVars, minted, consent, covered,
                 refused, overlapped, retired>>

\* `authorize`: the owner consents in a browser, and the first pair is written.
\* Earlier grants are left alone.
Consent ==
  /\ consent = None
  /\ minted < MaxToken
  /\ minted' = minted + 1
  /\ consent' = minted + 1
  /\ goodA' = goodA \cup {minted + 1}
  /\ goodR' = goodR \cup {minted + 1}
  /\ NoTrouble
  /\ UNCHANGED <<style, fileVars, memoryVars, requestVars, historyVars>>

Authorized ==
  /\ consent # None
  /\ storedA' = consent /\ storedR' = consent /\ stale' = FALSE
  /\ consent' = None
  /\ NoTrouble
  /\ UNCHANGED <<style, memoryVars, requestVars, providerVars, historyVars>>

Next ==
  \/ \E q \in Request :
       \/ Start(q) \/ Reuse(q) \/ ReplayRefusal(q) \/ Unreadable(q) \/ TakeGate(q)
       \/ Renewed(q) \/ RenewalLost(q) \/ Unreachable(q) \/ Refused(q)
       \/ Save(q) \/ SaveFails(q)
       \/ Answered(q) \/ Unauthorized(q) \/ RefusedTwice(q)
  \/ \E p \in Process : Launch(p) \/ Exit(p)
  \/ Age
  \/ \E a \in Token : Retire(a)
  \/ Revoke
  \/ Consent
  \/ Authorized

Spec == Init /\ [][Next]_vars

-----------------------------------------------------------------------------
(* Properties                                                               *)

TypeOK ==
  /\ style \in Styles
  /\ storedA \in Token /\ storedR \in Token /\ stale \in BOOLEAN
  /\ up \in [Process -> BOOLEAN]
  /\ gate \in [Process -> Request \cup {Nobody}]
  /\ generation \in [Process -> Nat]
  /\ memo \in [Process -> Token \cup {None}]
  /\ pc \in [Request -> RequestPC]
  /\ token \in [Request -> Token \cup {None}]
  /\ forced \in [Request -> BOOLEAN] /\ covered \in [Request -> BOOLEAN]
  /\ seen \in [Request -> Nat]
  /\ heldA \in [Request -> Token \cup {None}] /\ heldR \in [Request -> Token \cup {None}]
  /\ newA \in [Request -> Token \cup {None}] /\ newR \in [Request -> Token \cup {None}]
  /\ minted \in Token
  /\ goodA \subseteq 1..minted /\ goodR \subseteq 1..minted
  /\ consent \in Token \cup {None}
  /\ refused \in [Process -> SUBSET Token]
  /\ overlapped \in BOOLEAN /\ revoked \in BOOLEAN
  /\ retired \in 0..MaxTrouble /\ trouble \in 0..MaxTrouble

\* The credential that keeps the integration alive is never lost in memory: the
\* stored refresh token is one the provider will take, unless its successor is
\* about to be written, something failed, or the owner withdrew the grant.
RotationIsKept ==
  \/ storedR \in goodR
  \/ \E q \in Request : pc[q] = "save" /\ heldR[q] = storedR
  \/ revoked \/ trouble > 0

\* A herd costs one renewal: a request that waited while another renewed does
\* not renew again, unless the new token has aged since.
HerdIsShared ==
  \A q \in Request : pc[q] = "refresh" => ~covered[q]

\* A process asks about a grant it was told is dead once, not on every poll.
DeadGrantIsAskedOnce ==
  \A q \in Request :
    (pc[q] = "refresh" /\ style # "fortnox") => heldA[q] \notin refused[Of[q]]

\* An access token retired before its time fails no request, of any number in
\* flight, while one process at a time serves a grant in good standing.
RetiredTokenIsNoFailure ==
  (\E q \in Request : pc[q] = "failed") =>
    retired > 1 \/ overlapped \/ revoked \/ trouble > 0
=============================================================================
