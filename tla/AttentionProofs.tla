---------------------------- MODULE AttentionProofs ----------------------------
(***************************************************************************)
(* What TLAPS proves of Attention for every value of its constants: the    *)
(* count of discarded digest lines never understates what the owner was    *)
(* not told; a crash or a fault costs at most one verdict; an hour's       *)
(* interruptions and a day's sessions stay within their limits; and a      *)
(* briefing is sent once an occurrence, and the morning one never not.     *)
(***************************************************************************)
EXTENDS Attention, FiniteSetTheorems, TLAPS

USE AttentionAssumption

-----------------------------------------------------------------------------
(* The digest                                                               *)

Reading == {"ask", "bill", "session", "send", "clear"}

\* Lines gone from the digest that were not told, or that the briefing in
\* progress read before they went.
Carried == {n \in 1..front : n \notin told \/ n \in sf+1..sb}

DigestTyped ==
  /\ front \in Nat /\ back \in Nat /\ overflowed \in Nat /\ sf \in Nat /\ sb \in Nat
  /\ front <= back
  /\ bpc \in [Briefing -> BriefPC]

DigestInv ==
  /\ DigestTyped
  /\ bpc[Morning] \in Reading => sf <= sb /\ sf <= front /\ sb <= back
  /\ bpc[Morning] = "clear" => sf+1..sb \subseteq told
  /\ Cardinality(Carried) <= overflowed

\* The cardinality of a part is at most that of the whole.
LEMMA PartIsSmaller ==
  ASSUME NEW n \in Nat, NEW S, S \subseteq 1..n, NEW T, T \subseteq S
  PROVE  /\ IsFiniteSet(S) /\ IsFiniteSet(T)
         /\ Cardinality(S) \in Nat /\ Cardinality(T) \in Nat
         /\ Cardinality(T) <= Cardinality(S)
<1>1. IsFiniteSet(1..n)
  BY FS_Interval
<1>2. IsFiniteSet(S)
  BY <1>1, FS_Subset
<1>3. IsFiniteSet(T) /\ Cardinality(T) <= Cardinality(S)
  BY <1>2, FS_Subset
<1> QED
  BY <1>2, <1>3, FS_CardinalityType

\* At most one more.
LEMMA OneMore ==
  ASSUME NEW S, IsFiniteSet(S), NEW x, NEW T, T \subseteq S \cup {x}
  PROVE  IsFiniteSet(T) /\ Cardinality(T) \in Nat /\ Cardinality(T) <= Cardinality(S) + 1
<1>1. /\ IsFiniteSet(S \cup {x})
      /\ Cardinality(S \cup {x}) = IF x \in S THEN Cardinality(S) ELSE Cardinality(S) + 1
  BY FS_AddElement
<1>2. IsFiniteSet(T) /\ Cardinality(T) <= Cardinality(S \cup {x})
  BY <1>1, FS_Subset
<1>3. Cardinality(S) \in Nat /\ Cardinality(T) \in Nat
  BY <1>2, FS_CardinalityType
<1> QED
  BY <1>1, <1>2, <1>3

\* Taking out a part and putting in no more than its number.
LEMMA Exchange ==
  ASSUME NEW S, IsFiniteSet(S), NEW C, C \subseteq S,
         NEW U, IsFiniteSet(U), Cardinality(U) <= Cardinality(C),
         NEW T, T \subseteq (S \ C) \cup U
  PROVE  Cardinality(T) \in Nat /\ Cardinality(T) <= Cardinality(S)
<1>1. IsFiniteSet(C) /\ IsFiniteSet(S \ C)
  BY FS_Subset
<1>2. S \cap C = C
  OBVIOUS
<1>3. Cardinality(S \ C) = Cardinality(S) - Cardinality(C)
  BY <1>2, FS_Difference
<1>4. IsFiniteSet((S \ C) \cup U)
      /\ Cardinality((S \ C) \cup U)
         = Cardinality(S \ C) + Cardinality(U) - Cardinality((S \ C) \cap U)
  BY <1>1, FS_Union
<1>5. IsFiniteSet((S \ C) \cap U)
  BY <1>1, FS_Subset
<1>6. IsFiniteSet(T) /\ Cardinality(T) <= Cardinality((S \ C) \cup U)
  BY <1>4, FS_Subset
<1>7. /\ Cardinality(S) \in Nat /\ Cardinality(C) \in Nat /\ Cardinality(U) \in Nat
      /\ Cardinality((S \ C) \cap U) \in Nat /\ Cardinality(T) \in Nat
      /\ Cardinality((S \ C) \cup U) \in Nat
  BY <1>1, <1>4, <1>5, <1>6, FS_CardinalityType
<1> QED
  BY <1>3, <1>4, <1>6, <1>7

\* The integers of an interval.
LEMMA IntervalSize ==
  ASSUME NEW a \in Int, NEW b \in Int
  PROVE  IsFiniteSet(a..b) /\ Cardinality(a..b) = IF a > b THEN 0 ELSE b - a + 1
BY FS_Interval

\* A step that moves neither the digest nor what the briefing has read.
LEMMA DigestUnmoved ==
  ASSUME DigestInv, UNCHANGED <<digestVars, told, sf, sb>>,
         bpc' \in [Briefing -> BriefPC],
         bpc'[Morning] \in Reading => bpc[Morning] \in Reading,
         bpc'[Morning] = "clear" => bpc[Morning] = "clear"
  PROVE  DigestInv'
<1>1. Carried' = Carried
  BY DEF Carried, digestVars
<1> QED
  BY <1>1 DEF DigestInv, DigestTyped, digestVars

\* A step that ends the morning briefing without touching the digest.
LEMMA DigestForgotten ==
  ASSUME DigestInv, UNCHANGED digestVars, sf' = 0, sb' = 0,
         told \subseteq told',
         bpc' \in [Briefing -> BriefPC], bpc'[Morning] = "idle"
  PROVE  DigestInv'
<1>1. Carried' \subseteq Carried
  <2>1. sf'+1..sb' = {}
    OBVIOUS
  <2> QED
    BY <2>1 DEF Carried, digestVars
<1>2. Cardinality(Carried') <= Cardinality(Carried) /\ Cardinality(Carried') \in Nat
      /\ Cardinality(Carried) \in Nat
  <2>1. Carried \subseteq 1..front
    BY DEF Carried
  <2> QED
    BY <1>1, <2>1, PartIsSmaller DEF DigestInv, DigestTyped
<1> QED
  BY <1>1, <1>2 DEF DigestInv, DigestTyped, digestVars, Reading

\* A line is held; past the cap the oldest goes and is counted.
LEMMA DigestPushed ==
  ASSUME DigestInv, PushDigest, UNCHANGED <<briefVars, told>>
  PROVE  DigestInv'
<1> USE DEF digestVars, briefVars
<1>1. PICK overflow \in {0, 1} : /\ back' = back + 1 /\ front' = front + overflow
                                 /\ overflowed' = overflowed + overflow
                                 /\ front' <= back'
  BY DEF PushDigest, DigestInv, DigestTyped
<1>2. DigestTyped'
  BY <1>1 DEF DigestInv, DigestTyped
<1>3. Carried \subseteq 1..front /\ Carried' \subseteq 1..front'
  BY DEF Carried
<1>4. IsFiniteSet(Carried) /\ Cardinality(Carried) \in Nat
      /\ IsFiniteSet(Carried') /\ Cardinality(Carried') \in Nat
  BY <1>2, <1>3, PartIsSmaller DEF DigestInv, DigestTyped
<1>5. Cardinality(Carried') <= overflowed'
  <2>1. CASE overflow = 0
    <3>1. Carried' = Carried
      BY <1>1, <2>1 DEF Carried, DigestInv, DigestTyped
    <3> QED
      BY <1>1, <2>1, <3>1 DEF DigestInv, DigestTyped
  <2>2. CASE overflow = 1
    <3>1. Carried' \subseteq Carried \cup {front + 1}
      BY <1>1, <2>2 DEF Carried, DigestInv, DigestTyped
    <3>2. Cardinality(Carried') <= Cardinality(Carried) + 1
      BY <1>4, <3>1, OneMore
    <3> QED
      BY <1>1, <1>4, <2>2, <3>2 DEF DigestInv, DigestTyped
  <2> QED
    BY <1>1, <2>1, <2>2
<1> QED
  BY <1>1, <1>2, <1>5 DEF DigestInv, DigestTyped

\* The briefing's prefix is dropped: whatever it destroys unread is matched by
\* lines it carried that the cap had already pushed out and counted.
LEMMA DigestCleared ==
  ASSUME DigestInv, ClearDigest
  PROVE  DigestInv'
<1>1. /\ bpc[Morning] = "clear" /\ front' = Pick(back, front + (sb - sf))
      /\ back' = back /\ overflowed' = overflowed /\ told' = told
      /\ sf' = 0 /\ sb' = 0 /\ bpc' = [bpc EXCEPT ![Morning] = "idle"]
  BY DEF ClearDigest, DropDigestPrefix, BriefMoves, ownerVars
<1>2. /\ sf <= sb /\ sf <= front /\ sb <= back /\ front <= back
      /\ sf+1..sb \subseteq told
      /\ front \in Nat /\ back \in Nat /\ sf \in Nat /\ sb \in Nat /\ overflowed \in Nat
      /\ Cardinality(Carried) <= overflowed
  BY <1>1 DEF DigestInv, DigestTyped, Reading
<1>3. front' \in Nat /\ front' <= back'
  BY <1>1, <1>2 DEF Pick
<1>4. DigestTyped'
  BY <1>1, <1>2, <1>3 DEF DigestInv, DigestTyped, BriefPC
<1>5. PICK low \in Nat, high \in Nat :
        /\ low = (IF front < sb THEN front ELSE sb)
        /\ high = (IF front < sb THEN sb ELSE front)
  BY <1>2
<1>6. sf <= low /\ low <= front /\ low <= sb /\ low + high = front + sb
      /\ front <= high /\ sb <= high
  BY <1>2, <1>5
<1>7. IsFiniteSet(Carried) /\ Cardinality(Carried) \in Nat
  <2>1. Carried \subseteq 1..front
    BY DEF Carried
  <2> QED
    BY <1>2, <2>1, PartIsSmaller
<1>8. sf+1..low \subseteq Carried
  BY <1>2, <1>5, <1>6 DEF Carried
<1>9. Cardinality(sf+1..low) = low - sf
  <2>1. Cardinality(sf+1..low) = IF sf+1 > low THEN 0 ELSE low - (sf+1) + 1
    BY <1>2, <1>5, IntervalSize
  <2> QED
    BY <1>2, <1>5, <1>6, <2>1
<1>10. IsFiniteSet(high+1..front') /\ Cardinality(high+1..front') <= low - sf
  <2>1. front' <= front + (sb - sf)
    BY <1>1, <1>2 DEF Pick
  <2>2. high+1 \in Int /\ front' \in Int
    BY <1>3, <1>5
  <2>3. /\ IsFiniteSet(high+1..front')
        /\ Cardinality(high+1..front') = IF high+1 > front' THEN 0 ELSE front' - (high+1) + 1
    BY <2>2, IntervalSize
  <2> QED
    BY <1>2, <1>3, <1>5, <1>6, <2>1, <2>3
<1>11. Carried' \subseteq (Carried \ (sf+1..low)) \cup (high+1..front')
  <2> SUFFICES ASSUME NEW n \in Carried'
               PROVE  n \in (Carried \ (sf+1..low)) \cup (high+1..front')
    OBVIOUS
  <2>1. n \in 1..front' /\ n \notin told
    BY <1>1 DEF Carried
  <2>2. n \in Nat /\ ~(sf+1 <= n /\ n <= sb)
    BY <1>2, <1>3, <2>1
  <2>3. CASE n <= front
    BY <1>2, <1>5, <1>6, <2>1, <2>2, <2>3 DEF Carried
  <2>4. CASE n > front
    BY <1>2, <1>3, <1>5, <2>1, <2>2, <2>4
  <2> QED
    BY <1>2, <2>2, <2>3, <2>4
<1>12. Cardinality(Carried') <= overflowed'
  <2>1. Cardinality(high+1..front') <= Cardinality(sf+1..low)
    BY <1>9, <1>10
  <2>2. \A S, C, U, T :
          /\ IsFiniteSet(S) /\ C \subseteq S /\ IsFiniteSet(U)
          /\ Cardinality(U) <= Cardinality(C)
          /\ T \subseteq (S \ C) \cup U
          => Cardinality(T) \in Nat /\ Cardinality(T) <= Cardinality(S)
    BY Exchange
  <2>3. Cardinality(Carried') \in Nat /\ Cardinality(Carried') <= Cardinality(Carried)
    BY <1>7, <1>8, <1>10, <1>11, <2>1, <2>2
  <2> QED
    BY <1>1, <1>2, <1>7, <2>3
<1> QED
  BY <1>1, <1>4, <1>12 DEF DigestInv, DigestTyped, Reading

\* The steps of the triage pass, of the poll, of the process and of the clock
\* move the digest, if at all, by a push.
LEMMA DigestOutside ==
  ASSUME DigestInv,
         \/ \E e \in Event : RunWatchPoll(e)
         \/ Chat \/ Triage \/ PassFails
         \/ \E delivered \in BOOLEAN : Notify(delivered, FALSE)
         \/ Boot \/ Crash \/ Tick
  PROVE  DigestInv'
<1> DEFINE Unmoved == UNCHANGED <<digestVars, told, bpc, sf, sb>>
<1>1. Unmoved => DigestInv'
  <2> SUFFICES ASSUME Unmoved PROVE DigestInv'
    OBVIOUS
  <2>1. bpc' \in [Briefing -> BriefPC]
    BY DEF DigestInv, DigestTyped
  <2> QED
    BY <2>1, DigestUnmoved
<1> USE DEF briefVars, ownerVars, digestVars
<1>2. CASE \E e \in Event : RunWatchPoll(e)
  BY <1>1, <1>2 DEF RunWatchPoll, Record
<1>3. CASE Chat
  BY <1>1, <1>3 DEF Chat
<1>4. CASE PassFails
  BY <1>1, <1>4 DEF PassFails, PassOnly
<1>5. CASE \E delivered \in BOOLEAN : Notify(delivered, FALSE)
  BY <1>1, <1>5 DEF Notify
<1>6. CASE Boot
  BY <1>1, <1>6 DEF Boot
<1>7. CASE Tick
  BY <1>1, <1>7 DEF Tick
<1>8. CASE Crash
  <2>1. /\ UNCHANGED digestVars /\ sf' = 0 /\ sb' = 0 /\ told' = told
        /\ bpc' = [b \in Briefing |-> "idle"]
    BY <1>8 DEF Crash
  <2>2. bpc' \in [Briefing -> BriefPC] /\ bpc'[Morning] = "idle"
    BY <2>1 DEF BriefPC, AttentionAssumption
  <2> QED
    BY <2>1, <2>2, DigestForgotten
<1>9. CASE Triage
  <2>1. CASE ReadUntriaged \/ AskBudget \/ Tier1 \/ ReadRecent \/ PassEnds
    BY <1>1, <2>1 DEF ReadUntriaged, AskBudget, Tier1, ReadRecent, PassEnds, PassOnly
  <2>2. CASE StartTier1 \/ Abandon \/ LogSend
    BY <1>1, <2>2 DEF StartTier1, Abandon, LogSend
  <2>3. CASE \E e \in Event : DropMuted(e) \/ ChargeAttempt(e) \/ StampScore(e)
    BY <1>1, <2>3 DEF DropMuted, ChargeAttempt, StampScore
  <2>4. CASE Notify(TRUE, TRUE)
    BY <1>1, <2>4 DEF Notify
  <2>5. CASE TellAbandoned \/ HoldBack
    <3>1. PushDigest /\ UNCHANGED <<briefVars, told>>
      BY <2>5 DEF TellAbandoned, HoldBack
    <3> QED
      BY <3>1, DigestPushed
  <2> QED
    BY <1>9, <2>1, <2>2, <2>3, <2>4, <2>5 DEF Triage
<1> QED
  BY <1>2, <1>3, <1>4, <1>5, <1>6, <1>7, <1>8, <1>9

\* A briefing that moves on, or over, leaves the digest alone.
LEMMA DigestBriefMoves ==
  ASSUME DigestInv, NEW b \in Briefing, NEW p \in BriefPC \ {"clear"},
         b = Morning => p = "idle" \/ bpc[b] \in Reading,
         BriefMoves(b, p), UNCHANGED <<digestVars, told>>
  PROVE  DigestInv'
<1>1. bpc' \in [Briefing -> BriefPC] /\ bpc' = [bpc EXCEPT ![b] = p]
  BY DEF BriefMoves, DigestInv, DigestTyped
<1>2. CASE b = Morning /\ p = "idle"
  <2>1. sf' = 0 /\ sb' = 0 /\ bpc'[Morning] = "idle"
    BY <1>1, <1>2 DEF BriefMoves, DigestInv, DigestTyped
  <2> QED
    BY <1>1, <2>1, DigestForgotten
<1>3. CASE ~(b = Morning /\ p = "idle")
  <2>1. UNCHANGED <<sf, sb>>
    BY <1>3 DEF BriefMoves
  <2>2. /\ bpc'[Morning] \in Reading => bpc[Morning] \in Reading
        /\ bpc'[Morning] = "clear" => bpc[Morning] = "clear"
    BY <1>1, <1>3 DEF DigestInv, DigestTyped
  <2> QED
    BY <1>1, <2>1, <2>2, DigestUnmoved
<1> QED
  BY <1>2, <1>3

\* Reading the digest: nothing of what is read is gone yet.
LEMMA DigestGathered ==
  ASSUME DigestInv, NEW b \in Briefing, Gather(b)
  PROVE  DigestInv'
<1>1. PICK p \in {"ask", "fallback"} : bpc' = [bpc EXCEPT ![b] = p]
  BY DEF Gather
<1>2. bpc' \in [Briefing -> BriefPC] /\ UNCHANGED <<digestVars, told>>
  BY <1>1 DEF Gather, BriefOnly, ownerVars, DigestInv, DigestTyped, BriefPC
<1>3. CASE b = Morning
  <2>1. sf' = front /\ sb' = back /\ bpc'[Morning] # "clear"
    BY <1>1, <1>2, <1>3 DEF Gather, DigestInv, DigestTyped
  <2>2. Carried' \subseteq Carried /\ Carried \subseteq 1..front
    BY <1>2, <2>1 DEF Carried, digestVars, DigestInv, DigestTyped
  <2>3. /\ Cardinality(Carried') <= Cardinality(Carried)
        /\ Cardinality(Carried') \in Nat /\ Cardinality(Carried) \in Nat
    BY <2>2, PartIsSmaller DEF DigestInv, DigestTyped
  <2> QED
    BY <1>2, <2>1, <2>3 DEF DigestInv, DigestTyped, digestVars
<1>4. CASE b # Morning
  <2>1. UNCHANGED <<sf, sb>> /\ bpc'[Morning] = bpc[Morning]
    BY <1>1, <1>4 DEF Gather, DigestInv, DigestTyped
  <2> QED
    BY <1>2, <2>1, DigestUnmoved
<1> QED
  BY <1>3, <1>4

\* Sending: what was read is told, and only a known success goes on to clear it.
LEMMA DigestSent ==
  ASSUME DigestInv, NEW b \in Briefing, NEW delivered \in BOOLEAN, NEW ok \in BOOLEAN,
         SendBriefing(b, delivered, ok)
  PROVE  DigestInv'
<1> DEFINE p == IF b = Morning /\ ok THEN "clear" ELSE "idle"
<1>1. /\ BriefMoves(b, p) /\ UNCHANGED digestVars
      /\ told' = IF b = Morning /\ delivered THEN told \cup (sf+1..sb) ELSE told
      /\ ok => delivered
      /\ bpc[b] = "send"
  BY DEF SendBriefing
<1>2. bpc' \in [Briefing -> BriefPC] /\ bpc' = [bpc EXCEPT ![b] = p]
  BY <1>1 DEF BriefMoves, DigestInv, DigestTyped, BriefPC
<1>3. CASE b # Morning
  <2>1. UNCHANGED <<told, sf, sb>> /\ bpc'[Morning] = bpc[Morning]
    BY <1>1, <1>2, <1>3 DEF BriefMoves, DigestInv, DigestTyped
  <2> QED
    BY <1>1, <1>2, <2>1, DigestUnmoved
<1>4. CASE b = Morning /\ ~ok
  <2>1. sf' = 0 /\ sb' = 0 /\ bpc'[Morning] = "idle" /\ told \subseteq told'
    BY <1>1, <1>2, <1>4 DEF BriefMoves, DigestInv, DigestTyped
  <2> QED
    BY <1>1, <1>2, <2>1, DigestForgotten
<1>5. CASE b = Morning /\ ok
  <2>1. UNCHANGED <<sf, sb>> /\ told' = told \cup (sf+1..sb)
    BY <1>1, <1>5 DEF BriefMoves
  <2>2. Carried' = Carried
    BY <1>1, <2>1 DEF Carried, digestVars
  <2>3. bpc[Morning] \in Reading
    BY <1>1, <1>5 DEF Reading
  <2> QED
    BY <1>1, <1>2, <2>1, <2>2, <2>3 DEF DigestInv, DigestTyped, digestVars
<1> QED
  BY <1>3, <1>4, <1>5

LEMMA DigestNext ==
  ASSUME DigestInv, [Next]_vars
  PROVE  DigestInv'
<1>1. CASE UNCHANGED vars
  <2>1. UNCHANGED <<digestVars, told, sf, sb, bpc>>
    BY <1>1 DEF vars, ownerVars, briefVars
  <2> QED
    BY <2>1, DigestUnmoved DEF DigestInv, DigestTyped
<1>2. CASE \/ \E e \in Event : RunWatchPoll(e)
           \/ Chat \/ Triage \/ PassFails
           \/ \E delivered \in BOOLEAN : Notify(delivered, FALSE)
           \/ Boot \/ Crash \/ Tick
  BY <1>2, DigestOutside
<1>3. CASE \E b \in Briefing : BriefingFails(b)
  <2>1. PICK b \in Briefing : BriefingFails(b)
    BY <1>3
  <2>2. BriefMoves(b, "idle") /\ UNCHANGED <<digestVars, told>>
    BY <2>1 DEF BriefingFails, BriefOnly, ownerVars
  <2> QED
    BY <2>2, DigestBriefMoves DEF BriefPC
<1>4. CASE \E b \in Briefing, delivered \in BOOLEAN : SendBriefing(b, delivered, FALSE)
  BY <1>4, DigestSent
<1>5. CASE \E delivered \in BOOLEAN : PushFallback(delivered, FALSE)
  <2>1. BriefMoves(Morning, "idle") /\ UNCHANGED <<digestVars, told>>
    BY <1>5 DEF PushFallback
  <2> QED
    BY <2>1, DigestBriefMoves DEF BriefPC, AttentionAssumption
<1>6. CASE \E b \in Briefing : Brief(b)
  <2>1. PICK b \in Briefing : Brief(b)
    BY <1>6
  <2>2. CASE Claim(b)
    <3>1. /\ bpc' = [bpc EXCEPT ![b] = "gather"] /\ UNCHANGED <<sf, sb, digestVars, told>>
          /\ bpc[b] = "idle"
      BY <2>2 DEF Claim, BriefMoves
    <3>2. /\ bpc' \in [Briefing -> BriefPC]
          /\ bpc'[Morning] \in Reading => bpc[Morning] \in Reading
          /\ bpc'[Morning] = "clear" => bpc[Morning] = "clear"
      BY <3>1 DEF DigestInv, DigestTyped, BriefPC, Reading
    <3> QED
      BY <3>1, <3>2, DigestUnmoved
  <2>3. CASE Gather(b)
    BY <2>3, DigestGathered
  <2>4. CASE AskBriefing(b)
    <3>1. \E p \in {"bill", "fallback", "idle"} : BriefMoves(b, p)
      BY <2>4 DEF AskBriefing, Unwritten
    <3>2. UNCHANGED <<digestVars, told>> /\ bpc[b] \in Reading
      BY <2>4 DEF AskBriefing, BriefOnly, ownerVars, Reading
    <3> QED
      BY <3>1, <3>2, DigestBriefMoves DEF BriefPC
  <2>5. CASE StartBriefing(b)
    <3>1. BriefMoves(b, "session") /\ UNCHANGED <<digestVars, told>> /\ bpc[b] \in Reading
      BY <2>5 DEF StartBriefing, ownerVars, Reading
    <3> QED
      BY <3>1, DigestBriefMoves DEF BriefPC
  <2>6. CASE Written(b)
    <3>1. \E p \in {"send", "fallback", "idle"} : BriefMoves(b, p)
      BY <2>6 DEF Written, Unwritten
    <3>2. UNCHANGED <<digestVars, told>> /\ bpc[b] \in Reading
      BY <2>6 DEF Written, BriefOnly, ownerVars, Reading
    <3> QED
      BY <3>1, <3>2, DigestBriefMoves DEF BriefPC
  <2>7. CASE SendBriefing(b, TRUE, TRUE)
    BY <2>7, DigestSent
  <2>8. CASE ClearDigest
    BY <2>8, DigestCleared
  <2>9. CASE PushFallback(setup.pusher, TRUE)
    <3>1. BriefMoves(Morning, "idle") /\ UNCHANGED <<digestVars, told>>
      BY <2>9 DEF PushFallback
    <3> QED
      BY <3>1, DigestBriefMoves DEF BriefPC, AttentionAssumption
  <2> QED
    BY <2>1, <2>2, <2>3, <2>4, <2>5, <2>6, <2>7, <2>8, <2>9 DEF Brief
<1> QED
  BY <1>1, <1>2, <1>3, <1>4, <1>5, <1>6 DEF Next

\* The dropped count never understates what the owner was not told.
THEOREM UntoldIsCountedHolds == Spec => []UntoldIsCounted
<1>1. Init => DigestInv
  <2> SUFFICES ASSUME Init PROVE DigestInv
    OBVIOUS
  <2>1. DigestTyped /\ bpc[Morning] = "idle" /\ front = 0 /\ overflowed = 0
    BY DEF Init, DigestTyped, BriefPC, AttentionAssumption
  <2>2. Carried = {}
    BY <2>1 DEF Carried
  <2> QED
    BY <2>1, <2>2, FS_EmptySet DEF DigestInv, Reading
<1>2. DigestInv => UntoldIsCounted
  <2> SUFFICES ASSUME DigestInv PROVE UntoldIsCounted
    OBVIOUS
  <2>1. Untold \subseteq Carried /\ Carried \subseteq 1..front
    BY DEF Untold, Carried
  <2>2. /\ Cardinality(Untold) <= Cardinality(Carried)
        /\ Cardinality(Untold) \in Nat /\ Cardinality(Carried) \in Nat
    BY <2>1, PartIsSmaller DEF DigestInv, DigestTyped
  <2> QED
    BY <2>2 DEF DigestInv, DigestTyped, UntoldIsCounted
<1>3. DigestInv /\ [Next]_vars => DigestInv'
  BY DigestNext
<1> QED
  BY <1>1, <1>2, <1>3, PTL DEF Spec

-----------------------------------------------------------------------------
(* The verdicts                                                             *)

Fates == {"none", "muted", "digest", "rung"}

VerdictInv ==
  /\ triaged \in [Event -> BOOLEAN]
  /\ fate \in [Event -> Fates]
  /\ trouble \in Nat
  /\ Cardinality(Silent \ InHand) <= trouble

\* A step that loses no verdict.
LEMMA NoneLost ==
  ASSUME VerdictInv, trouble' = trouble,
         triaged' \in [Event -> BOOLEAN], fate' \in [Event -> Fates],
         Silent' \ InHand' \subseteq Silent \ InHand
  PROVE  VerdictInv'
<1>1. Silent \ InHand \subseteq 1..MaxEvents /\ MaxEvents \in Nat
  BY DEF Silent, Event, AttentionAssumption
<1>2. /\ Cardinality(Silent' \ InHand') <= Cardinality(Silent \ InHand)
      /\ Cardinality(Silent' \ InHand') \in Nat /\ Cardinality(Silent \ InHand) \in Nat
  BY <1>1, PartIsSmaller
<1> QED
  BY <1>2 DEF VerdictInv

\* A crash or a fault, which loses at most the verdict in hand.
LEMMA OneLost ==
  ASSUME VerdictInv, trouble' = trouble + 1,
         triaged' \in [Event -> BOOLEAN], fate' \in [Event -> Fates],
         Silent' \ InHand' \subseteq (Silent \ InHand) \cup {at}
  PROVE  VerdictInv'
<1>1. Silent \ InHand \subseteq 1..MaxEvents /\ MaxEvents \in Nat
  BY DEF Silent, Event, AttentionAssumption
<1>2. IsFiniteSet(Silent \ InHand) /\ Cardinality(Silent \ InHand) \in Nat
  BY <1>1, PartIsSmaller
<1>3. /\ Cardinality(Silent' \ InHand') <= Cardinality(Silent \ InHand) + 1
      /\ Cardinality(Silent' \ InHand') \in Nat
  BY <1>2, OneMore
<1> QED
  BY <1>2, <1>3 DEF VerdictInv

\* A step of which the verdicts see nothing.
LEMMA VerdictsUntouched ==
  ASSUME VerdictInv, UNCHANGED <<triaged, fate, trouble>>, Silent \cap InHand \subseteq InHand'
  PROVE  VerdictInv'
<1>1. Silent' = Silent
  BY DEF Silent
<1> QED
  BY <1>1, NoneLost DEF VerdictInv

\* A verdict is stamped on an event the pass then has in hand, or that is muted.
LEMMA VerdictStamped ==
  ASSUME VerdictInv, NEW e \in Event, NEW outcome \in Fates, UNCHANGED trouble,
         triaged' = [triaged EXCEPT ![e] = TRUE], fate' = [fate EXCEPT ![e] = outcome],
         InHand = {}, InHand' = {e} \/ outcome # "none"
  PROVE  VerdictInv'
<1>1. triaged' \in [Event -> BOOLEAN] /\ fate' \in [Event -> Fates]
  BY DEF VerdictInv
<1>2. Silent' \ InHand' \subseteq Silent \ InHand
  <2> SUFFICES ASSUME NEW n \in Silent', n \notin InHand' PROVE n \in Silent \ InHand
    OBVIOUS
  <2>1. n \in Event /\ triaged'[n] /\ fate'[n] = "none"
    BY DEF Silent
  <2>2. n # e
    BY <2>1 DEF VerdictInv
  <2> QED
    BY <2>1, <2>2 DEF Silent, VerdictInv
<1> QED
  BY <1>1, <1>2, NoneLost

\* The verdict in hand is told: it rang, or it is a line of the digest.
LEMMA VerdictTold ==
  ASSUME VerdictInv, NEW f \in Fates \ {"none"}, UNCHANGED <<triaged, trouble>>,
         fate' = [fate EXCEPT ![at] = IF triaged[at] THEN f ELSE @],
         InHand \subseteq {at}
  PROVE  VerdictInv'
<1>1. triaged' \in [Event -> BOOLEAN] /\ fate' \in [Event -> Fates]
  BY DEF VerdictInv
<1>2. Silent' \ InHand' \subseteq Silent \ InHand
  <2> SUFFICES ASSUME NEW n \in Silent' PROVE n \in Silent \ InHand
    OBVIOUS
  <2>1. n \in Event /\ triaged[n] /\ fate'[n] = "none"
    BY DEF Silent
  <2>2. n # at
    BY <2>1 DEF VerdictInv
  <2>3. fate[n] = "none"
    BY <2>1, <2>2 DEF VerdictInv
  <2> QED
    BY <2>1, <2>2, <2>3 DEF Silent
<1> QED
  BY <1>1, <1>2, NoneLost

\* The pass ends where it stands.
LEMMA VerdictDropped ==
  ASSUME VerdictInv, UNCHANGED <<triaged, fate>>, trouble' = trouble + 1
  PROVE  VerdictInv'
<1>1. Silent' = Silent
  BY DEF Silent
<1>2. InHand \subseteq {at}
  BY DEF InHand
<1> QED
  BY <1>1, <1>2, OneLost DEF VerdictInv

LEMMA VerdictTriage ==
  ASSUME VerdictInv, Triage
  PROVE  VerdictInv'
<1>1. CASE ReadUntriaged \/ AskBudget \/ Tier1 \/ ReadRecent \/ PassEnds
  <2>1. UNCHANGED <<triaged, fate, trouble>> /\ InHand = {}
    BY <1>1 DEF ReadUntriaged, AskBudget, Tier1, ReadRecent, PassEnds, PassOnly, eventVars,
                NoTrouble, InHand
  <2> QED
    BY <2>1, VerdictsUntouched
<1>2. CASE StartTier1 \/ LogSend
  <2>1. UNCHANGED <<triaged, fate, trouble>> /\ InHand = {}
    BY <1>2 DEF StartTier1, LogSend, eventVars, NoTrouble, InHand
  <2> QED
    BY <2>1, VerdictsUntouched
<1>3. CASE \E e \in Event : ChargeAttempt(e)
  <2>1. UNCHANGED <<triaged, fate, trouble>> /\ InHand = {}
    BY <1>3 DEF ChargeAttempt, NoTrouble, InHand
  <2> QED
    BY <2>1, VerdictsUntouched
<1>4. CASE \E e \in Event : DropMuted(e)
  <2>1. PICK e \in Event : DropMuted(e)
    BY <1>4
  <2>2. /\ triaged' = [triaged EXCEPT ![e] = TRUE] /\ fate' = [fate EXCEPT ![e] = "muted"]
        /\ trouble' = trouble /\ InHand = {}
    BY <2>1 DEF DropMuted, SetSalience, NoTrouble, InHand
  <2> QED
    BY <2>2, VerdictStamped DEF Fates
<1>5. CASE \E e \in Event : StampScore(e)
  <2>1. PICK e \in Event : StampScore(e)
    BY <1>5
  <2>2. /\ triaged' = [triaged EXCEPT ![e] = TRUE] /\ fate' = [fate EXCEPT ![e] = "none"]
        /\ trouble' = trouble /\ InHand = {}
    BY <2>1 DEF StampScore, SetSalience, NoTrouble, InHand
  <2>3. InHand' = {e}
    BY <2>1 DEF StampScore, PassMoves, InHand
  <2> QED
    BY <2>2, <2>3, VerdictStamped DEF Fates
<1>6. CASE Abandon
  <2>1. /\ triaged' = [triaged EXCEPT ![at] = TRUE] /\ fate' = [fate EXCEPT ![at] = "none"]
        /\ trouble' = trouble /\ InHand = {} /\ InHand' = {at}
    BY <1>6 DEF Abandon, PassMoves, passLocals, NoTrouble, InHand
  <2>2. CASE at \in Event
    BY <2>1, <2>2, VerdictStamped DEF Fates
  <2>3. CASE at \notin Event
    <3>1. UNCHANGED <<triaged, fate, trouble>>
      BY <2>1, <2>3 DEF VerdictInv
    <3> QED
      BY <2>1, <3>1, VerdictsUntouched
  <2> QED
    BY <2>2, <2>3
<1>7. CASE TellAbandoned \/ HoldBack
  <2>1. /\ fate' = [fate EXCEPT ![at] = IF triaged[at] THEN "digest" ELSE @]
        /\ UNCHANGED <<triaged, trouble>> /\ InHand \subseteq {at}
    BY <1>7 DEF TellAbandoned, HoldBack, Held, NoTrouble, InHand
  <2> QED
    BY <2>1, VerdictTold DEF Fates
<1>8. CASE Notify(TRUE, TRUE)
  <2>1. /\ fate' = IF triaged[at] THEN [fate EXCEPT ![at] = "rung"] ELSE fate
        /\ UNCHANGED <<triaged, trouble>> /\ InHand \subseteq {at}
    BY <1>8 DEF Notify, NoTrouble, InHand
  <2>2. fate' = [fate EXCEPT ![at] = IF triaged[at] THEN "rung" ELSE @]
    BY <2>1 DEF VerdictInv
  <2> QED
    BY <2>1, <2>2, VerdictTold DEF Fates
<1> QED
  BY <1>1, <1>2, <1>3, <1>4, <1>5, <1>6, <1>7, <1>8 DEF Triage

\* A message whose outcome was lost: its line is held next, rung or not.
LEMMA VerdictUnsure ==
  ASSUME VerdictInv, NEW delivered \in BOOLEAN, Notify(delivered, FALSE)
  PROVE  VerdictInv'
<1>1. /\ fate' = IF delivered /\ triaged[at] THEN [fate EXCEPT ![at] = "rung"] ELSE fate
      /\ UNCHANGED triaged /\ trouble' = trouble + 1 /\ InHand \subseteq {at}
  BY DEF Notify, Trouble, InHand
<1>2. fate' \in [Event -> Fates]
  BY <1>1 DEF VerdictInv, Fates
<1>3. Silent' \ InHand' \subseteq (Silent \ InHand) \cup {at}
  <2> SUFFICES ASSUME NEW n \in Silent', n # at PROVE n \in Silent \ InHand
    OBVIOUS
  <2>1. n \in Event /\ triaged[n] /\ fate'[n] = "none"
    BY <1>1 DEF Silent
  <2>2. fate[n] = "none"
    BY <1>1, <2>1 DEF VerdictInv
  <2> QED
    BY <1>1, <2>1, <2>2 DEF Silent
<1> QED
  BY <1>1, <1>2, <1>3, OneLost DEF VerdictInv

\* The briefings leave the verdicts, the pass, its log and the clock alone.
LEMMA BriefingsApart ==
  ASSUME \/ \E b \in Briefing : Brief(b) \/ BriefingFails(b)
         \/ \E b \in Briefing, delivered \in BOOLEAN : SendBriefing(b, delivered, FALSE)
         \/ \E delivered \in BOOLEAN : PushFallback(delivered, FALSE)
  PROVE  UNCHANGED <<eventVars, passVars, logged, rung, clock>> /\ (NoTrouble \/ Trouble)
<1> USE DEF passVars, passLocals, ownerVars, worldVars
<1>1. CASE \E b \in Briefing : BriefingFails(b)
  BY <1>1 DEF BriefingFails, BriefOnly
<1>2. CASE \E b \in Briefing, delivered \in BOOLEAN : SendBriefing(b, delivered, FALSE)
  BY <1>2 DEF SendBriefing
<1>3. CASE \E delivered \in BOOLEAN : PushFallback(delivered, FALSE)
  BY <1>3 DEF PushFallback
<1>4. CASE \E b \in Briefing : Brief(b)
  <2>1. PICK b \in Briefing : Brief(b)
    BY <1>4
  <2>2. CASE Gather(b) \/ AskBriefing(b) \/ Written(b)
    BY <2>2 DEF Gather, AskBriefing, Written, BriefOnly
  <2>3. CASE Claim(b) \/ StartBriefing(b)
    BY <2>3 DEF Claim, StartBriefing
  <2>4. CASE ClearDigest
    BY <2>4 DEF ClearDigest
  <2>5. CASE SendBriefing(b, TRUE, TRUE) \/ PushFallback(setup.pusher, TRUE)
    BY <2>5 DEF SendBriefing, PushFallback
  <2> QED
    BY <2>1, <2>2, <2>3, <2>4, <2>5 DEF Brief
<1> QED
  BY <1>1, <1>2, <1>3, <1>4

LEMMA VerdictNext ==
  ASSUME VerdictInv, [Next]_vars
  PROVE  VerdictInv'
<1>1. CASE \E e \in Event : RunWatchPoll(e)
  <2>1. PICK e \in Event : RunWatchPoll(e)
    BY <1>1
  <2>2. /\ triaged' = [triaged EXCEPT ![e] = FALSE] /\ fate' = [fate EXCEPT ![e] = "none"]
        /\ UNCHANGED <<trouble, tpc, at>>
    BY <2>1 DEF RunWatchPoll, Record, NoTrouble, passVars, passLocals
  <2>3. triaged' \in [Event -> BOOLEAN] /\ fate' \in [Event -> Fates]
    BY <2>2 DEF VerdictInv, Fates
  <2>4. Silent' \subseteq Silent /\ InHand' = InHand
    BY <2>2 DEF Silent, InHand, VerdictInv
  <2> QED
    BY <2>2, <2>3, <2>4, NoneLost
<1>2. CASE Triage
  BY <1>2, VerdictTriage
<1>3. CASE PassFails
  <2>1. UNCHANGED <<triaged, fate>> /\ trouble' = trouble + 1
    BY <1>3 DEF PassFails, PassOnly, eventVars, Trouble
  <2> QED
    BY <2>1, VerdictDropped
<1>4. CASE \E delivered \in BOOLEAN : Notify(delivered, FALSE)
  BY <1>4, VerdictUnsure
<1>5. CASE \/ \E b \in Briefing : Brief(b) \/ BriefingFails(b)
           \/ \E b \in Briefing, delivered \in BOOLEAN : SendBriefing(b, delivered, FALSE)
           \/ \E delivered \in BOOLEAN : PushFallback(delivered, FALSE)
  <2>1. UNCHANGED <<triaged, fate, tpc, at>> /\ (trouble' = trouble \/ trouble' = trouble + 1)
    BY <1>5, BriefingsApart DEF eventVars, passVars, passLocals, NoTrouble, Trouble
  <2>2. InHand' = InHand
    BY <2>1 DEF InHand
  <2> QED
    BY <2>1, <2>2, VerdictsUntouched, VerdictDropped
<1>6. CASE Chat \/ Boot \/ Tick \/ UNCHANGED vars
  <2>1. UNCHANGED <<triaged, fate, trouble, tpc, at>>
    BY <1>6 DEF Chat, Boot, Tick, vars, eventVars, passVars, passLocals, NoTrouble
  <2>2. InHand' = InHand
    BY <2>1 DEF InHand
  <2> QED
    BY <2>1, <2>2, VerdictsUntouched
<1>7. CASE Crash
  <2>1. UNCHANGED <<triaged, fate>> /\ trouble' = trouble + 1
    BY <1>7 DEF Crash, eventVars, Trouble
  <2> QED
    BY <2>1, VerdictDropped
<1> QED
  BY <1>1, <1>2, <1>3, <1>4, <1>5, <1>6, <1>7 DEF Next

\* A verdict that stands has been told, but for one at most for each crash or
\* fault: run_triage stamps one event at a time, just before it notifies.
THEOREM LossIsOnePerTroubleHolds == Spec => []LossIsOnePerTrouble
<1>1. Init => VerdictInv
  <2> SUFFICES ASSUME Init PROVE VerdictInv
    OBVIOUS
  <2>1. /\ triaged = [e \in Event |-> FALSE] /\ fate = [e \in Event |-> "none"]
        /\ trouble = 0
    BY DEF Init
  <2>2. Silent \ InHand = {}
    BY <2>1 DEF Silent
  <2>3. Cardinality(Silent \ InHand) = 0
    BY <2>2, FS_EmptySet
  <2>4. triaged \in [Event -> BOOLEAN] /\ fate \in [Event -> Fates]
    BY <2>1 DEF Fates
  <2> QED
    BY <2>1, <2>3, <2>4 DEF VerdictInv
<1>2. VerdictInv => LossIsOnePerTrouble
  BY DEF VerdictInv, LossIsOnePerTrouble
<1>3. VerdictInv /\ [Next]_vars => VerdictInv'
  BY VerdictNext
<1> QED
  BY <1>1, <1>2, <1>3, PTL DEF Spec
-----------------------------------------------------------------------------
(* Counting the rows of a log                                               *)

\* The rows of a log that fall on the instants T.
Within(log, T) == Cardinality({i \in DOMAIN log : log[i] \in T})

LEMMA WithinEmpty == \A T : Within(<<>>, T) = 0
<1> SUFFICES ASSUME NEW T PROVE Within(<<>>, T) = 0
  OBVIOUS
<1>1. {i \in DOMAIN <<>> : <<>>[i] \in T} = {}
  OBVIOUS
<1> QED
  BY <1>1, FS_EmptySet DEF Within

\* A part of the instants holds a part of the rows.
LEMMA WithinPart ==
  ASSUME NEW log \in Seq(Nat), NEW T, NEW U, \A i \in DOMAIN log : log[i] \in T => log[i] \in U
  PROVE  Within(log, T) \in Nat /\ Within(log, U) \in Nat /\ Within(log, T) <= Within(log, U)
<1> DEFINE S(V) == {i \in DOMAIN log : log[i] \in V}
<1>1. Len(log) \in Nat /\ S(U) \subseteq 1..Len(log) /\ S(T) \subseteq S(U)
  OBVIOUS
<1> QED
  BY <1>1, PartIsSmaller DEF Within

\* A row more is one more on the instants it falls on, and none on the others.
LEMMA WithinAppend ==
  ASSUME NEW log \in Seq(Nat), NEW t \in Nat, NEW T
  PROVE  /\ Append(log, t) \in Seq(Nat)
         /\ Within(log, T) \in Nat
         /\ Within(Append(log, t), T) = Within(log, T) + (IF t \in T THEN 1 ELSE 0)
<1> DEFINE S == {i \in DOMAIN log : log[i] \in T}
           S2 == {i \in DOMAIN Append(log, t) : Append(log, t)[i] \in T}
           n == Len(log)
<1>1. n \in Nat /\ DOMAIN log = 1..n /\ DOMAIN Append(log, t) = 1..n+1
  OBVIOUS
<1>2. Append(log, t)[n+1] = t /\ \A i \in 1..n : Append(log, t)[i] = log[i]
  OBVIOUS
<1>3. S \subseteq 1..n /\ n+1 \notin S
  BY <1>1
<1>4. IsFiniteSet(S) /\ Cardinality(S) \in Nat
  BY <1>1, <1>3, PartIsSmaller
<1>a. Append(log, t) \in Seq(Nat)
  OBVIOUS
<1>b. Within(log, T) = Cardinality(S) /\ Within(Append(log, t), T) = Cardinality(S2)
  BY DEF Within
<1> HIDE DEF S, S2
<1>5. CASE t \in T
  <2>1. S2 = S \cup {n+1}
    BY <1>1, <1>2, <1>5 DEF S, S2
  <2>2. Cardinality(S2) = Cardinality(S) + 1
    BY <1>3, <1>4, <2>1, FS_AddElement
  <2> QED
    BY <1>a, <1>b, <1>4, <1>5, <2>2
<1>6. CASE t \notin T
  <2>1. S2 = S
    BY <1>1, <1>2, <1>6 DEF S, S2
  <2> QED
    BY <1>a, <1>b, <1>4, <1>6, <2>1
<1> QED
  BY <1>5, <1>6

-----------------------------------------------------------------------------
(* The hourly limit                                                         *)

\* The trailing hour at an instant, and all there is after its start.
Hour(now) == {t \in Nat : now - Window < t /\ t <= now}
Since(now) == {t \in Nat : now - Window < t}

Scoring == {"score", "send", "log", "hold"}

\* The pass knows at least the sends logged within its hour, and sends only
\* below the limit; every hour's log is within the limit, and what rang without
\* being logged is the send in hand or was lost to a crash or a fault.
RationTyped ==
  /\ logged \in Seq(Nat) /\ rung \in Seq(Nat)
  /\ tnow \in Nat /\ clock \in Nat /\ recent \in Nat /\ trouble \in Nat

InHourOf(now) == IF tpc = "log" /\ tnow \in Hour(now) THEN 1 ELSE 0

RationInv ==
  /\ RationTyped
  /\ tpc \in Scoring => Within(logged, Since(tnow)) <= recent
  /\ tpc \in {"send", "log"} => recent < MaxPerHour
  /\ \A now \in Time : Within(logged, Hour(now)) <= MaxPerHour
  /\ \A now \in Time :
       Within(rung, Hour(now)) <= Within(logged, Hour(now)) + trouble + InHourOf(now)

\* Nothing is sent or logged, and the pass does not get nearer to sending.
LEMMA RationUnmoved ==
  ASSUME RationInv, UNCHANGED <<logged, rung>>, trouble' \in Nat, clock' \in Nat,
         tnow' \in Nat, recent' \in Nat,
         \/ tpc' \notin Scoring
         \/ tpc' \in {"score", "hold"} /\ tpc \in Scoring /\ UNCHANGED <<tnow, recent>>
         \/ tpc' = tpc /\ UNCHANGED <<tnow, recent>>,
         \/ trouble' = trouble /\ (tpc = "log" => tpc' = "log" /\ tnow' = tnow)
         \/ trouble' = trouble + 1
  PROVE  RationInv'
<1>1. RationTyped'
  BY DEF RationInv, RationTyped
<1>2. tpc' \in Scoring => Within(logged', Since(tnow')) <= recent'
  BY DEF RationInv, Since
<1>3. tpc' \in {"send", "log"} => recent' < MaxPerHour
  BY DEF RationInv, Scoring
<1>4. \A now \in Time :
        /\ Within(logged', Hour(now)) <= MaxPerHour
        /\ Within(rung', Hour(now)) <= Within(logged', Hour(now)) + trouble' + InHourOf(now)'
  <2> SUFFICES ASSUME NEW now \in Time
               PROVE  /\ Within(logged', Hour(now)) <= MaxPerHour
                      /\ Within(rung', Hour(now))
                           <= Within(logged', Hour(now)) + trouble' + InHourOf(now)'
    OBVIOUS
  <2>1. /\ Within(logged, Hour(now)) \in Nat /\ Within(rung, Hour(now)) \in Nat
        /\ Within(logged, Hour(now)) <= MaxPerHour
        /\ Within(rung, Hour(now)) <= Within(logged, Hour(now)) + trouble + InHourOf(now)
    BY WithinPart DEF RationInv, RationTyped
  <2>2. InHourOf(now) \in {0, 1} /\ InHourOf(now)' \in {0, 1} /\ trouble \in Nat
    BY DEF InHourOf, RationInv, RationTyped
  <2>3. trouble' = trouble => InHourOf(now) = 0 \/ InHourOf(now)' = InHourOf(now)
    BY <2>2 DEF InHourOf, RationInv, RationTyped
  <2>4. trouble + InHourOf(now) <= trouble' + InHourOf(now)'
    BY <2>2, <2>3
  <2> QED
    BY <2>1, <2>2, <2>4
<1> QED
  BY <1>1, <1>2, <1>3, <1>4 DEF RationInv, Hour

\* The policy let it through: it rings, and is about to be logged or is trouble.
LEMMA RationNotify ==
  ASSUME RationInv, NEW delivered \in BOOLEAN, NEW ok \in BOOLEAN, Notify(delivered, ok)
  PROVE  RationInv'
<1>1. /\ tpc = "send" /\ (ok => delivered) /\ tpc' = IF ok THEN "log" ELSE "hold"
      /\ trouble' = IF ok THEN trouble ELSE trouble + 1
      /\ rung' = IF delivered THEN Append(rung, tnow) ELSE rung
      /\ UNCHANGED <<logged, tnow, recent, clock>>
  BY DEF Notify, NoTrouble, Trouble, PassMoves, passLocals, worldVars
<1>2. RationTyped'
  BY <1>1 DEF RationInv, RationTyped
<1>3. \A now \in Time :
        Within(rung', Hour(now)) <= Within(logged', Hour(now)) + trouble' + InHourOf(now)'
  <2> SUFFICES ASSUME NEW now \in Time
               PROVE  Within(rung', Hour(now))
                        <= Within(logged', Hour(now)) + trouble' + InHourOf(now)'
    OBVIOUS
  <2>1. /\ Within(logged, Hour(now)) \in Nat /\ Within(rung, Hour(now)) \in Nat
        /\ Within(Append(rung, tnow), Hour(now))
             = Within(rung, Hour(now)) + (IF tnow \in Hour(now) THEN 1 ELSE 0)
    BY WithinPart, WithinAppend DEF RationInv, RationTyped
  <2>2. Within(rung, Hour(now)) <= Within(logged, Hour(now)) + trouble /\ trouble \in Nat
    BY <1>1, <2>1 DEF RationInv, RationTyped, InHourOf
  <2>3. CASE ok
    <3>1. InHourOf(now)' = IF tnow \in Hour(now) THEN 1 ELSE 0
      BY <1>1, <2>3 DEF InHourOf, Hour
    <3> QED
      BY <1>1, <2>1, <2>2, <2>3, <3>1
  <2>4. CASE ~ok
    <3>1. InHourOf(now)' = 0
      BY <1>1, <2>4 DEF InHourOf
    <3> QED
      BY <1>1, <2>1, <2>2, <2>4, <3>1
  <2> QED
    BY <2>3, <2>4
<1>4. tpc' \in Scoring => Within(logged', Since(tnow')) <= recent'
  BY <1>1 DEF RationInv, Since, Scoring
<1>5. recent' < MaxPerHour /\ \A now \in Time : Within(logged', Hour(now)) <= MaxPerHour
  BY <1>1 DEF RationInv
<1> QED
  BY <1>2, <1>3, <1>4, <1>5 DEF RationInv, Hour

\* It is logged: every hour it falls into began after the pass's own.
LEMMA RationLogged ==
  ASSUME RationInv, LogSend
  PROVE  RationInv'
<1>1. /\ tpc = "log" /\ tpc' = "score" /\ trouble' = trouble
      /\ logged' = Append(logged, tnow) /\ recent' = recent + 1
      /\ UNCHANGED <<rung, tnow, clock>>
  BY DEF LogSend, NoTrouble, PassMoves, ownerVars, worldVars
<1>2. RationTyped'
  BY <1>1 DEF RationInv, RationTyped
<1>3. Within(logged, Since(tnow)) <= recent /\ recent < MaxPerHour
  BY <1>1 DEF RationInv, Scoring
<1>4. Within(logged', Since(tnow')) <= recent'
  <2>1. logged \in Seq(Nat) /\ tnow \in Nat
    BY DEF RationInv, RationTyped
  <2>2. /\ Within(logged, Since(tnow)) \in Nat
        /\ Within(Append(logged, tnow), Since(tnow))
             = Within(logged, Since(tnow)) + (IF tnow \in Since(tnow) THEN 1 ELSE 0)
    BY <2>1, WithinAppend
  <2>3. Within(logged', Since(tnow)) \in Nat /\ Within(logged, Since(tnow)) \in Nat
        /\ Within(logged', Since(tnow)) <= Within(logged, Since(tnow)) + 1
    BY <1>1, <2>2
  <2>4. Since(tnow') = Since(tnow)
    BY <1>1 DEF Since
  <2> QED
    BY <1>1, <1>3, <2>3, <2>4 DEF RationInv, RationTyped
<1>5. \A now \in Time :
        /\ Within(logged', Hour(now)) <= MaxPerHour
        /\ Within(rung', Hour(now)) <= Within(logged', Hour(now)) + trouble' + InHourOf(now)'
  <2> SUFFICES ASSUME NEW now \in Time
               PROVE  /\ Within(logged', Hour(now)) <= MaxPerHour
                      /\ Within(rung', Hour(now))
                           <= Within(logged', Hour(now)) + trouble' + InHourOf(now)'
    OBVIOUS
  <2>1. /\ Within(logged, Hour(now)) \in Nat /\ Within(rung, Hour(now)) \in Nat
        /\ Within(logged', Hour(now))
             = Within(logged, Hour(now)) + (IF tnow \in Hour(now) THEN 1 ELSE 0)
    BY <1>1, WithinPart, WithinAppend DEF RationInv, RationTyped
  <2>2. /\ Within(logged, Hour(now)) <= MaxPerHour
        /\ Within(rung, Hour(now)) <= Within(logged, Hour(now)) + trouble + InHourOf(now)
    BY DEF RationInv
  <2>3. InHourOf(now) = (IF tnow \in Hour(now) THEN 1 ELSE 0) /\ InHourOf(now)' = 0
    BY <1>1 DEF InHourOf
  <2>4. CASE tnow \in Hour(now)
    <3>1. \A i \in DOMAIN logged : logged[i] \in Hour(now) => logged[i] \in Since(tnow)
      BY <2>4 DEF Hour, Since, RationInv, RationTyped, AttentionAssumption, Time
    <3>2. Within(logged, Hour(now)) <= Within(logged, Since(tnow))
          /\ Within(logged, Since(tnow)) \in Nat
      BY <3>1, WithinPart DEF RationInv, RationTyped
    <3> QED
      BY <1>1, <1>3, <2>1, <2>2, <2>3, <2>4, <3>2 DEF RationInv, RationTyped, AttentionAssumption
  <2>5. CASE tnow \notin Hour(now)
    BY <1>1, <2>1, <2>2, <2>3, <2>5 DEF RationInv, RationTyped
  <2> QED
    BY <2>4, <2>5
<1> QED
  BY <1>1, <1>2, <1>4, <1>5 DEF RationInv, Hour

\* The history is read: what the log holds of the pass's hour.
LEMMA RationRead ==
  ASSUME RationInv, ReadRecent
  PROVE  RationInv'
<1>1. /\ tpc = "miss" /\ tpc' = "score" /\ recent' = Recent(logged, tnow)
      /\ UNCHANGED <<logged, rung, trouble, tnow, clock>>
  BY DEF ReadRecent, NoTrouble, PassMoves, PassOnly, ownerVars, worldVars
<1>2. recent' = Within(logged, Since(tnow))
  <2>1. \A i \in DOMAIN logged : logged[i] \in Nat
    BY DEF RationInv, RationTyped
  <2>2. {i \in DOMAIN logged : logged[i] > tnow - Window}
          = {i \in DOMAIN logged : logged[i] \in Since(tnow)}
    BY <2>1 DEF Since, RationInv, RationTyped, AttentionAssumption
  <2> QED
    BY <1>1, <2>2 DEF Recent, Within
<1>3. Within(logged, Since(tnow)) \in Nat
  BY WithinPart DEF RationInv, RationTyped
<1>4. RationTyped'
  BY <1>1, <1>2, <1>3 DEF RationInv, RationTyped
<1>5. Within(logged', Since(tnow')) <= recent'
  BY <1>1, <1>2, <1>3 DEF Since
<1>6. \A now \in Time : InHourOf(now) = 0 /\ InHourOf(now)' = 0
  BY <1>1 DEF InHourOf
<1>7. \A now \in Time :
        /\ Within(logged', Hour(now)) <= MaxPerHour
        /\ Within(rung', Hour(now)) <= Within(logged', Hour(now)) + trouble' + InHourOf(now)'
  BY <1>1, <1>6 DEF RationInv
<1> QED
  BY <1>1, <1>4, <1>5, <1>7 DEF RationInv, Hour

LEMMA RationTriage ==
  ASSUME RationInv, Triage
  PROVE  RationInv'
<1> USE DEF passLocals, ownerVars, worldVars, NoTrouble, PassMoves
<1>t. RationTyped
  BY DEF RationInv
<1>1. CASE ReadUntriaged
  <2>1. tpc = "idle" /\ tpc' = "drop" /\ tnow' = clock
        /\ UNCHANGED <<logged, rung, trouble, clock, recent>>
    BY <1>1 DEF ReadUntriaged, PassOnly
  <2> QED
    BY <1>t, <2>1, RationUnmoved DEF RationTyped, Scoring
<1>2. CASE AskBudget
  <2>1. tpc = "drop" /\ tpc' \in {"bill", "idle"} /\ tnow' \in {tnow, 0} /\ recent' \in {recent, 0}
        /\ UNCHANGED <<logged, rung, trouble, clock>>
    BY <1>2 DEF AskBudget, PassOnly, PassOver
  <2> QED
    BY <1>t, <2>1, RationUnmoved DEF RationTyped, Scoring
<1>3. CASE StartTier1 \/ Tier1 \/ Abandon \/ TellAbandoned
  <2>1. tpc # "log" /\ tpc' \in {"session", "miss", "tell"}
        /\ UNCHANGED <<logged, rung, trouble, clock, tnow, recent>>
    BY <1>3 DEF StartTier1, Tier1, Abandon, TellAbandoned, PassOnly
  <2> QED
    BY <1>t, <2>1, RationUnmoved DEF RationTyped, Scoring
<1>4. CASE \E e \in Event : DropMuted(e) \/ ChargeAttempt(e)
  <2>1. tpc # "log" /\ tpc' \in {"drop", "miss", "abandon"}
        /\ UNCHANGED <<logged, rung, trouble, clock, tnow, recent>>
    BY <1>4 DEF DropMuted, ChargeAttempt
  <2> QED
    BY <1>t, <2>1, RationUnmoved DEF RationTyped, Scoring
<1>5. CASE HoldBack
  <2>1. tpc = "hold" /\ tpc' = "score"
        /\ UNCHANGED <<logged, rung, trouble, clock, tnow, recent>>
    BY <1>5 DEF HoldBack
  <2> QED
    BY <1>t, <2>1, RationUnmoved DEF RationTyped, Scoring
<1>6. CASE PassEnds
  <2>1. tpc = "score" /\ tpc' = "idle" /\ tnow' = 0 /\ recent' = 0
        /\ UNCHANGED <<logged, rung, trouble, clock>>
    BY <1>6 DEF PassEnds, PassOnly, PassOver
  <2> QED
    BY <1>t, <2>1, RationUnmoved DEF RationTyped, Scoring
<1>7. CASE \E e \in Event : StampScore(e)
  <2>1. PICK e \in Event : StampScore(e)
    BY <1>7
  <2>2. /\ tpc = "score" /\ tpc' \in {"send", "hold"}
        /\ tpc' = "send" => recent < MaxPerHour
        /\ UNCHANGED <<logged, rung, trouble, clock, tnow, recent>>
    BY <2>1 DEF StampScore, Interrupts
  <2>3. CASE tpc' = "hold"
    BY <1>t, <2>2, <2>3, RationUnmoved DEF RationTyped, Scoring
  <2>4. CASE tpc' = "send"
    <3>1. RationTyped' /\ Within(logged', Since(tnow')) <= recent' /\ recent' < MaxPerHour
      BY <2>2, <2>4 DEF RationInv, RationTyped, Scoring, Since
    <3>2. \A now \in Time : InHourOf(now) = 0 /\ InHourOf(now)' = 0
      BY <2>2, <2>4 DEF InHourOf
    <3>3. \A now \in Time :
            /\ Within(logged', Hour(now)) <= MaxPerHour
            /\ Within(rung', Hour(now)) <= Within(logged', Hour(now)) + trouble' + InHourOf(now)'
      BY <2>2, <3>2 DEF RationInv
    <3> QED
      BY <3>1, <3>3 DEF RationInv, Hour
  <2> QED
    BY <2>2, <2>3, <2>4
<1> QED
  BY <1>1, <1>2, <1>3, <1>4, <1>5, <1>6, <1>7, RationRead, RationLogged, RationNotify DEF Triage

LEMMA RationNext ==
  ASSUME RationInv, [Next]_vars
  PROVE  RationInv'
<1>t. RationTyped
  BY DEF RationInv
<1>1. CASE Triage
  BY <1>1, RationTriage
<1>2. CASE \E delivered \in BOOLEAN : Notify(delivered, FALSE)
  BY <1>2, RationNotify
<1>3. CASE PassFails \/ Crash
  <2>1. /\ UNCHANGED <<logged, rung, clock>> /\ tpc' = "idle" /\ tnow' = 0 /\ recent' = 0
        /\ trouble' = trouble + 1
    BY <1>3 DEF PassFails, Crash, PassOver, PassOnly, ownerVars, worldVars, Trouble
  <2> QED
    BY <1>t, <2>1, RationUnmoved DEF RationTyped, Scoring
<1>4. CASE (\E e \in Event : RunWatchPoll(e)) \/ Chat \/ Boot \/ Tick \/ UNCHANGED vars
  <2>1. /\ UNCHANGED <<logged, rung, tpc, tnow, recent, trouble>>
        /\ clock' \in {clock, clock + 1}
    BY <1>4 DEF RunWatchPoll, Chat, Boot, Tick, vars, passVars, passLocals, ownerVars, worldVars,
                NoTrouble
  <2> QED
    BY <1>t, <2>1, RationUnmoved DEF RationTyped, Scoring
<1>5. CASE \/ \E b \in Briefing : Brief(b) \/ BriefingFails(b)
           \/ \E b \in Briefing, delivered \in BOOLEAN : SendBriefing(b, delivered, FALSE)
           \/ \E delivered \in BOOLEAN : PushFallback(delivered, FALSE)
  <2>1. /\ UNCHANGED <<logged, rung, tpc, tnow, recent, clock>>
        /\ trouble' = trouble \/ trouble' = trouble + 1
    BY <1>5, BriefingsApart DEF passVars, passLocals, NoTrouble, Trouble
  <2> QED
    BY <1>t, <2>1, RationUnmoved DEF RationTyped, Scoring
<1> QED
  BY <1>1, <1>2, <1>3, <1>4, <1>5 DEF Next

\* Whatever crashes and restarts there were, the interruptions of any hour are
\* at most max_per_hour and one for each crash or fault.
THEOREM InterruptionsAreRationedHolds == Spec => []InterruptionsAreRationed
<1>1. Init => RationInv
  <2> SUFFICES ASSUME Init PROVE RationInv
    OBVIOUS
  <2>1. logged = <<>> /\ rung = <<>> /\ tnow = 0 /\ clock = 0 /\ recent = 0 /\ trouble = 0
        /\ tpc = "idle"
    BY DEF Init
  <2>2. \A now \in Time : Within(logged, Hour(now)) = 0 /\ Within(rung, Hour(now)) = 0
                          /\ InHourOf(now) = 0
    BY <2>1, WithinEmpty DEF InHourOf
  <2> QED
    BY <2>1, <2>2 DEF RationInv, RationTyped, Scoring, AttentionAssumption
<1>2. RationInv => InterruptionsAreRationed
  <2> SUFFICES ASSUME RationInv, NEW now \in Time PROVE Rationed(now) <= MaxPerHour + trouble
    BY DEF InterruptionsAreRationed
  <2>1. Rationed(now) = Within(rung, Hour(now))
    <3>1. \A i \in DOMAIN rung : rung[i] \in Nat
      BY DEF RationInv, RationTyped
    <3>2. {i \in DOMAIN rung : now - Window < rung[i] /\ rung[i] <= now}
            = {i \in DOMAIN rung : rung[i] \in Hour(now)}
      BY <3>1 DEF Hour
    <3> QED
      BY <3>2 DEF Rationed, Within
  <2>2. /\ Within(logged, Hour(now)) \in Nat /\ Within(rung, Hour(now)) \in Nat
        /\ Within(logged, Hour(now)) <= MaxPerHour /\ trouble \in Nat
        /\ Within(rung, Hour(now)) <= Within(logged, Hour(now)) + trouble + InHourOf(now)
    BY WithinPart DEF RationInv, RationTyped
  <2>3. CASE InHourOf(now) = 0
    BY <2>1, <2>2, <2>3 DEF AttentionAssumption
  <2>4. CASE InHourOf(now) # 0
    <3>1. tpc = "log" /\ tnow \in Hour(now) /\ InHourOf(now) = 1
      BY <2>4 DEF InHourOf
    <3>2. \A i \in DOMAIN logged : logged[i] \in Hour(now) => logged[i] \in Since(tnow)
      BY <3>1 DEF Hour, Since, RationInv, RationTyped, AttentionAssumption, Time
    <3>3. Within(logged, Hour(now)) <= Within(logged, Since(tnow))
          /\ Within(logged, Since(tnow)) \in Nat
      BY <3>2, WithinPart DEF RationInv, RationTyped
    <3>4. Within(logged, Since(tnow)) <= recent /\ recent < MaxPerHour /\ recent \in Nat
      BY <3>1 DEF RationInv, RationTyped, Scoring
    <3> QED
      BY <2>1, <2>2, <3>1, <3>3, <3>4 DEF AttentionAssumption
  <2> QED
    BY <2>3, <2>4
<1>3. RationInv /\ [Next]_vars => RationInv'
  BY RationNext
<1> QED
  BY <1>1, <1>2, <1>3, PTL DEF Spec
-----------------------------------------------------------------------------
(* The session budget                                                       *)

\* A day starts no later than any of its instants, and later days later.
LEMMA DayStartsInOrder ==
  ASSUME NEW t \in Nat
  PROVE  /\ DayStart(t) \in Nat /\ DayStart(t) <= t
         /\ \A u \in Nat : t <= u => DayStart(t) <= DayStart(u)
<1>1. \A n \in Nat : /\ n \div DayLength \in Nat
                     /\ DayStart(n) = DayLength * (n \div DayLength)
                     /\ DayStart(n) \in Nat /\ DayStart(n) <= n
                     /\ n < DayStart(n) + DayLength
  BY DEF DayStart, AttentionAssumption
<1>2. \A a, b \in Nat : a <= b => DayLength * a <= DayLength * b /\ DayLength * a \in Nat
  BY DEF AttentionAssumption
<1>3. ASSUME NEW u \in Nat, t <= u
      PROVE  DayStart(t) <= DayStart(u)
  <2> DEFINE q == t \div DayLength
             r == u \div DayLength
  <2>1. /\ q \in Nat /\ r \in Nat /\ DayStart(t) = DayLength * q /\ DayStart(u) = DayLength * r
        /\ DayStart(t) <= t /\ u < DayStart(u) + DayLength
    BY <1>1
  <2> HIDE DEF q, r
  <2>2. CASE q <= r
    BY <1>2, <2>1, <2>2
  <2>3. CASE r + 1 <= q
    <3>1. DayLength * (r + 1) <= DayLength * q
      BY <1>2, <2>1, <2>3
    <3>2. DayLength * (r + 1) = DayLength * r + DayLength
      BY <2>1 DEF AttentionAssumption
    <3>3. DayStart(u) + DayLength <= DayStart(t)
      BY <2>1, <3>1, <3>2
    <3> QED
      BY <1>2, <1>3, <2>1, <3>3 DEF AttentionAssumption
  <2> QED
    BY <2>1, <2>2, <2>3
<1>4. DayStart(t) \in Nat /\ DayStart(t) <= t
  BY <1>1
<1> QED
  BY <1>3, <1>4

\* The instants of a day, and those from its start on.
Day(day) == {t \in Nat : DayStart(t) = day}
From(day) == {t \in Nat : t >= day}

\* The jobs that have asked for a session and not yet opened its row.
BilledBriefings == {b \in Briefing : bpc[b] = "bill"}
Billed == Cardinality(BilledBriefings) + (IF tpc = "bill" THEN 1 ELSE 0)

BudgetTyped ==
  /\ spent \in Seq(Nat) /\ chatted \in Seq(Nat)
  /\ clock \in Nat /\ tnow \in Nat /\ tnow <= clock
  /\ \A i \in DOMAIN spent : spent[i] <= clock
  /\ bpc \in [Briefing -> BriefPC]

\* Today's sessions and those granted and not yet begun; and whoever was granted
\* one was under a ceiling that is not zero.
BudgetInv ==
  /\ BudgetTyped
  /\ Billed > 0 => DailySessions > 0
  /\ \A day \in Nat : Within(spent, Day(day)) <= DailySessions + Cardinality(Briefing)
  /\ Within(spent, Day(DayStart(clock))) + Billed <= DailySessions + Cardinality(Briefing)

LEMMA BilledIsBounded ==
  /\ Cardinality(Briefing) \in Nat
  /\ IsFiniteSet(BilledBriefings)
  /\ Cardinality(BilledBriefings) \in Nat /\ Billed \in Nat
  /\ Billed <= Cardinality(Briefing) + 1
  /\ \A b \in Briefing \ BilledBriefings : Cardinality(BilledBriefings) + 1 <= Cardinality(Briefing)
<1>1. BilledBriefings \subseteq Briefing /\ IsFiniteSet(Briefing)
  BY DEF BilledBriefings, AttentionAssumption
<1>2. /\ IsFiniteSet(BilledBriefings) /\ Cardinality(BilledBriefings) <= Cardinality(Briefing)
      /\ Cardinality(BilledBriefings) \in Nat /\ Cardinality(Briefing) \in Nat
  BY <1>1, FS_Subset, FS_CardinalityType
<1>3. ASSUME NEW b \in Briefing \ BilledBriefings
      PROVE  Cardinality(BilledBriefings) + 1 <= Cardinality(Briefing)
  <2>1. Cardinality(BilledBriefings \cup {b}) = Cardinality(BilledBriefings) + 1
    BY <1>2, <1>3, FS_AddElement
  <2>2. Cardinality(BilledBriefings \cup {b}) <= Cardinality(Briefing)
    BY <1>1, <1>3, FS_Subset
  <2> QED
    BY <2>1, <2>2
<1> QED
  BY <1>2, <1>3 DEF Billed

\* Nobody is granted a session, and none begins.
LEMMA BudgetUnmoved ==
  ASSUME BudgetInv, UNCHANGED <<spent, clock>>, chatted' \in Seq(Nat),
         tnow' \in {tnow, 0, clock}, bpc' \in [Briefing -> BriefPC],
         \A b \in Briefing : bpc'[b] = "bill" => bpc[b] = "bill",
         tpc' = "bill" => tpc = "bill"
  PROVE  BudgetInv'
<1>1. BudgetTyped'
  BY DEF BudgetInv, BudgetTyped
<1>2. BilledBriefings' \subseteq BilledBriefings
  BY DEF BilledBriefings
<1>3. Cardinality(BilledBriefings') <= Cardinality(BilledBriefings)
      /\ Cardinality(BilledBriefings') \in Nat
  BY <1>2, BilledIsBounded, FS_Subset, FS_CardinalityType
<1>4. Billed' <= Billed /\ Billed' \in Nat /\ Billed \in Nat
  BY <1>3, BilledIsBounded DEF Billed
<1>5. Day(DayStart(clock')) = Day(DayStart(clock))
      /\ Within(spent, Day(DayStart(clock))) \in Nat
  BY WithinPart DEF BudgetInv, BudgetTyped
<1> QED
  BY <1>1, <1>4, <1>5, BilledIsBounded DEF BudgetInv, AttentionAssumption

\* A session is granted to one who asked below the ceiling of the day he asks
\* for, which is today or an earlier one.
LEMMA BudgetGranted ==
  ASSUME BudgetInv, NEW now \in Nat, now <= clock, TryConsume(now),
         UNCHANGED <<spent, chatted, clock, tnow>>, bpc' \in [Briefing -> BriefPC],
         \/ /\ tpc # "bill" /\ tpc' = "bill" /\ bpc' = bpc
         \/ /\ tpc' = tpc
            /\ \E b \in Briefing : bpc[b] # "bill" /\ bpc' = [bpc EXCEPT ![b] = "bill"]
  PROVE  BudgetInv'
<1>t. BudgetTyped
  BY DEF BudgetInv
<1>1. BudgetTyped'
  BY DEF BudgetInv, BudgetTyped
<1>2. Within(spent, Day(DayStart(clock))) \in Nat
      /\ Within(spent, Day(DayStart(clock))) < DailySessions
  <2>1. /\ CountSince(spent, DayStart(now)) = Within(spent, From(DayStart(now)))
        /\ CountSince(chatted, DayStart(now)) = Within(chatted, From(DayStart(now)))
    <3>1. /\ \A i \in DOMAIN spent : spent[i] \in Nat
          /\ \A i \in DOMAIN chatted : chatted[i] \in Nat
      BY <1>t DEF BudgetTyped
    <3>2. /\ {i \in DOMAIN spent : spent[i] >= DayStart(now)}
               = {i \in DOMAIN spent : spent[i] \in From(DayStart(now))}
          /\ {i \in DOMAIN chatted : chatted[i] >= DayStart(now)}
               = {i \in DOMAIN chatted : chatted[i] \in From(DayStart(now))}
      BY <3>1 DEF From
    <3> QED
      BY <3>2 DEF CountSince, Within
  <2>2. /\ Within(spent, From(DayStart(now))) \in Nat
        /\ Within(chatted, From(DayStart(now))) \in Nat
    BY <1>t, WithinPart DEF BudgetTyped
  <2>3. \A i \in DOMAIN spent :
          spent[i] \in Day(DayStart(clock)) => spent[i] \in From(DayStart(now))
    <3> SUFFICES ASSUME NEW i \in DOMAIN spent, spent[i] \in Day(DayStart(clock))
                 PROVE  spent[i] \in From(DayStart(now))
      OBVIOUS
    <3>1. spent[i] \in Nat /\ DayStart(spent[i]) = DayStart(clock)
      BY <1>t DEF BudgetTyped, Day
    <3>2. DayStart(spent[i]) <= spent[i] /\ DayStart(spent[i]) \in Nat
      BY <3>1, DayStartsInOrder
    <3>3. DayStart(now) <= DayStart(clock) /\ DayStart(now) \in Nat
      BY <1>t, DayStartsInOrder DEF BudgetTyped
    <3> QED
      BY <3>1, <3>2, <3>3 DEF From
  <2>4. Within(spent, Day(DayStart(clock))) <= Within(spent, From(DayStart(now)))
        /\ Within(spent, Day(DayStart(clock))) \in Nat
    BY <1>t, <2>3, WithinPart DEF BudgetTyped
  <2> QED
    BY <2>1, <2>2, <2>4 DEF TryConsume, SpentToday, AttentionAssumption
<1>3. /\ Billed' = Billed + 1 /\ Billed <= Cardinality(Briefing)
      /\ Billed \in Nat /\ Billed' \in Nat /\ Cardinality(Briefing) \in Nat
  <2>1. CASE tpc # "bill" /\ tpc' = "bill" /\ bpc' = bpc
    <3>1. BilledBriefings' = BilledBriefings
      BY <2>1 DEF BilledBriefings
    <3>2. Billed = Cardinality(BilledBriefings) + 0 /\ Billed' = Cardinality(BilledBriefings) + 1
      BY <2>1, <3>1 DEF Billed
    <3>3. Cardinality(BilledBriefings) <= Cardinality(Briefing)
      <4>1. BilledBriefings \subseteq Briefing
        BY DEF BilledBriefings
      <4> QED
        BY <4>1, FS_Subset DEF AttentionAssumption
    <3> QED
      BY <3>2, <3>3, BilledIsBounded
  <2>2. ASSUME tpc' = tpc, NEW b \in Briefing, bpc[b] # "bill", bpc' = [bpc EXCEPT ![b] = "bill"]
        PROVE  /\ Billed' = Billed + 1 /\ Billed <= Cardinality(Briefing)
               /\ Billed \in Nat /\ Billed' \in Nat /\ Cardinality(Briefing) \in Nat
    <3>1. BilledBriefings' = BilledBriefings \cup {b} /\ b \notin BilledBriefings
      BY <1>t, <2>2 DEF BilledBriefings, BudgetTyped
    <3>2. Cardinality(BilledBriefings') = Cardinality(BilledBriefings) + 1
      BY <3>1, BilledIsBounded, FS_AddElement
    <3>3. Cardinality(BilledBriefings) + 1 <= Cardinality(Briefing)
      BY <3>1, BilledIsBounded
    <3> QED
      BY <2>2, <3>2, <3>3, BilledIsBounded DEF Billed
  <2> QED
    BY <2>1, <2>2
<1>4. DailySessions \in Nat /\ DailySessions > 0
  BY <1>2 DEF AttentionAssumption
<1>5. Day(DayStart(clock')) = Day(DayStart(clock))
  OBVIOUS
<1>6. Within(spent', Day(DayStart(clock'))) + Billed' <= DailySessions + Cardinality(Briefing)
  BY <1>2, <1>3, <1>4, <1>5
<1> QED
  BY <1>1, <1>4, <1>6 DEF BudgetInv

\* A session granted begins: its row is today's.
LEMMA BudgetOpened ==
  ASSUME BudgetInv, StartRun, UNCHANGED <<chatted, clock, tnow>>, bpc' \in [Briefing -> BriefPC],
         \/ /\ tpc = "bill" /\ tpc' # "bill" /\ bpc' = bpc
         \/ /\ tpc' = tpc
            /\ \E b \in Briefing : bpc[b] = "bill" /\ bpc' = [bpc EXCEPT ![b] = "session"]
  PROVE  BudgetInv'
<1>t. BudgetTyped
  BY DEF BudgetInv
<1>1. spent' = Append(spent, clock) /\ spent \in Seq(Nat) /\ clock \in Nat
  BY <1>t DEF StartRun, BudgetTyped
<1>2. BudgetTyped'
  <2>1. spent' \in Seq(Nat) /\ \A i \in DOMAIN spent' : spent'[i] <= clock'
    BY <1>t, <1>1 DEF BudgetTyped
  <2> QED
    BY <1>t, <2>1 DEF BudgetTyped
<1>3. Billed = Billed' + 1 /\ Billed \in Nat /\ Billed' \in Nat /\ Billed > 0
  <2>1. CASE tpc = "bill" /\ tpc' # "bill" /\ bpc' = bpc
    <3>1. BilledBriefings' = BilledBriefings
      BY <2>1 DEF BilledBriefings
    <3>2. Billed = Cardinality(BilledBriefings) + 1 /\ Billed' = Cardinality(BilledBriefings) + 0
      BY <2>1, <3>1 DEF Billed
    <3> QED
      BY <3>2, BilledIsBounded
  <2>2. ASSUME tpc' = tpc, NEW b \in Briefing, bpc[b] = "bill", bpc' = [bpc EXCEPT ![b] = "session"]
        PROVE  Billed = Billed' + 1 /\ Billed \in Nat /\ Billed' \in Nat /\ Billed > 0
    <3>1. BilledBriefings' = BilledBriefings \ {b} /\ b \in BilledBriefings
      BY <1>t, <2>2 DEF BilledBriefings, BudgetTyped
    <3>2. Cardinality(BilledBriefings') = Cardinality(BilledBriefings) - 1
          /\ IsFiniteSet(BilledBriefings')
      BY <3>1, BilledIsBounded, FS_RemoveElement
    <3>3. Cardinality(BilledBriefings') \in Nat
      BY <3>2, FS_CardinalityType
    <3> QED
      BY <2>2, <3>2, <3>3, BilledIsBounded DEF Billed
  <2> QED
    BY <2>1, <2>2
<1>4. \A day \in Nat :
        /\ Within(spent, Day(day)) \in Nat
        /\ Within(spent', Day(day))
             = Within(spent, Day(day)) + (IF day = DayStart(clock) THEN 1 ELSE 0)
  <2> SUFFICES ASSUME NEW day \in Nat
               PROVE  /\ Within(spent, Day(day)) \in Nat
                      /\ Within(spent', Day(day))
                           = Within(spent, Day(day)) + (IF day = DayStart(clock) THEN 1 ELSE 0)
    OBVIOUS
  <2>1. clock \in Day(day) <=> day = DayStart(clock)
    BY <1>1 DEF Day
  <2>2. /\ Within(spent, Day(day)) \in Nat
        /\ Within(Append(spent, clock), Day(day))
             = Within(spent, Day(day)) + (IF clock \in Day(day) THEN 1 ELSE 0)
    BY <1>1, WithinAppend
  <2> QED
    BY <1>1, <2>1, <2>2
<1>5. DayStart(clock) \in Nat /\ Cardinality(Briefing) \in Nat /\ DailySessions \in Nat
  BY <1>1, DayStartsInOrder, BilledIsBounded DEF AttentionAssumption
<1>6. Within(spent', Day(DayStart(clock'))) + Billed' <= DailySessions + Cardinality(Briefing)
  BY <1>3, <1>4, <1>5 DEF BudgetInv
<1>7. \A day \in Nat : Within(spent', Day(day)) <= DailySessions + Cardinality(Briefing)
  BY <1>3, <1>4, <1>5 DEF BudgetInv
<1>8. DailySessions > 0
  BY <1>3 DEF BudgetInv
<1> QED
  BY <1>2, <1>6, <1>7, <1>8 DEF BudgetInv

\* Time passes: a new day has no rows yet, and no more is granted than there are
\* jobs to begin it.
LEMMA BudgetTicks ==
  ASSUME BudgetInv, Tick
  PROVE  BudgetInv'
<1>t. BudgetTyped
  BY DEF BudgetInv
<1>1. clock' = clock + 1 /\ UNCHANGED <<spent, chatted, tnow, tpc, bpc>> /\ clock \in Nat
  BY <1>t DEF Tick, budgetVars, passVars, passLocals, briefVars, BudgetTyped
<1>2. BudgetTyped'
  BY <1>t, <1>1 DEF BudgetTyped
<1>3. Billed' = Billed
  BY <1>1 DEF Billed, BilledBriefings
<1>4. CASE DayStart(clock') = DayStart(clock)
  BY <1>1, <1>2, <1>3, <1>4 DEF BudgetInv
<1>5. CASE DayStart(clock') # DayStart(clock)
  <2>1. {i \in DOMAIN spent : spent[i] \in Day(DayStart(clock'))} = {}
    <3> SUFFICES ASSUME NEW i \in DOMAIN spent, spent[i] \in Day(DayStart(clock')) PROVE FALSE
      OBVIOUS
    <3>1. spent[i] \in Nat /\ spent[i] <= clock /\ DayStart(spent[i]) = DayStart(clock')
      BY <1>t DEF BudgetTyped, Day
    <3>2. DayStart(spent[i]) <= DayStart(clock) /\ DayStart(clock) <= DayStart(clock')
          /\ DayStart(spent[i]) \in Nat /\ DayStart(clock) \in Nat
      BY <1>1, <3>1, DayStartsInOrder
    <3> QED
      BY <1>5, <3>1, <3>2
  <2>2. Within(spent', Day(DayStart(clock'))) = 0
    BY <1>1, <2>1, FS_EmptySet DEF Within
  <2>3. Billed \in Nat /\ Billed <= DailySessions + Cardinality(Briefing)
    BY BilledIsBounded DEF BudgetInv, AttentionAssumption
  <2>4. Within(spent', Day(DayStart(clock'))) + Billed' <= DailySessions + Cardinality(Briefing)
    BY <1>3, <2>2, <2>3
  <2>5. /\ Billed' > 0 => DailySessions > 0
        /\ \A day \in Nat : Within(spent', Day(day)) <= DailySessions + Cardinality(Briefing)
    BY <1>1, <1>3 DEF BudgetInv
  <2> QED
    BY <1>2, <2>4, <2>5 DEF BudgetInv
<1> QED
  BY <1>4, <1>5

\* What a briefing's move leaves alone, and where it leads.
LEMMA BudgetBriefMoves ==
  ASSUME BudgetInv, NEW b \in Briefing, NEW p \in BriefPC \ {"bill"}, bpc' = [bpc EXCEPT ![b] = p],
         UNCHANGED <<spent, chatted, clock, tnow, tpc>>
  PROVE  BudgetInv'
<1>1. bpc \in [Briefing -> BriefPC] /\ chatted \in Seq(Nat)
  BY DEF BudgetInv, BudgetTyped
<1>2. bpc' \in [Briefing -> BriefPC] /\ \A c \in Briefing : bpc'[c] = "bill" => bpc[c] = "bill"
  BY <1>1
<1> QED
  BY <1>1, <1>2, BudgetUnmoved

LEMMA BudgetBriefings ==
  ASSUME BudgetInv,
         \/ \E b \in Briefing : Brief(b) \/ BriefingFails(b)
         \/ \E b \in Briefing, delivered \in BOOLEAN : SendBriefing(b, delivered, FALSE)
         \/ \E delivered \in BOOLEAN : PushFallback(delivered, FALSE)
  PROVE  BudgetInv'
<1> USE DEF passVars, passLocals, budgetVars, worldVars, BriefMoves
<1>t. BudgetTyped
  BY DEF BudgetInv
<1> DEFINE Moves(b, P) == /\ \E p \in P : bpc' = [bpc EXCEPT ![b] = p]
                          /\ UNCHANGED <<spent, chatted, clock, tnow, tpc>>
<1>1. \A b \in Briefing, P \in SUBSET (BriefPC \ {"bill"}) : Moves(b, P) => BudgetInv'
  BY BudgetBriefMoves
<1>2. ASSUME NEW b \in Briefing, BriefingFails(b) PROVE BudgetInv'
  <2>1. Moves(b, {"idle"})
    BY <1>2 DEF BriefingFails, BriefOnly
  <2> QED
    BY <1>1, <2>1 DEF BriefPC
<1>3. ASSUME NEW b \in Briefing, NEW delivered \in BOOLEAN, NEW ok \in BOOLEAN,
             SendBriefing(b, delivered, ok)
      PROVE  BudgetInv'
  <2>1. Moves(b, {"idle", "clear"})
    BY <1>3 DEF SendBriefing
  <2> QED
    BY <1>1, <2>1 DEF BriefPC
<1>4. ASSUME NEW delivered, NEW ok \in BOOLEAN, PushFallback(delivered, ok)
      PROVE  BudgetInv'
  <2>1. Moves(Morning, {"idle"}) /\ Morning \in Briefing
    BY <1>4 DEF PushFallback, AttentionAssumption
  <2> QED
    BY <1>1, <2>1 DEF BriefPC
<1>5. ASSUME NEW b \in Briefing, Claim(b) PROVE BudgetInv'
  <2>1. Moves(b, {"gather"})
    BY <1>5 DEF Claim
  <2> QED
    BY <1>1, <2>1 DEF BriefPC
<1>6. ASSUME NEW b \in Briefing, Gather(b) PROVE BudgetInv'
  <2>1. Moves(b, {"ask", "fallback"})
    BY <1>6 DEF Gather, BriefOnly
  <2> QED
    BY <1>1, <2>1 DEF BriefPC
<1>7. ASSUME NEW b \in Briefing, Written(b) PROVE BudgetInv'
  <2>1. Moves(b, {"send", "fallback", "idle"})
    BY <1>7 DEF Written, Unwritten, BriefOnly
  <2> QED
    BY <1>1, <2>1 DEF BriefPC
<1>8. ASSUME ClearDigest PROVE BudgetInv'
  <2>1. Moves(Morning, {"idle"}) /\ Morning \in Briefing
    BY <1>8 DEF ClearDigest, AttentionAssumption
  <2> QED
    BY <1>1, <2>1 DEF BriefPC
<1>9. ASSUME NEW b \in Briefing, StartBriefing(b) PROVE BudgetInv'
  <2>1. /\ StartRun /\ UNCHANGED <<chatted, clock, tnow, tpc>>
        /\ bpc[b] = "bill" /\ bpc' = [bpc EXCEPT ![b] = "session"]
    BY <1>9 DEF StartBriefing
  <2>2. bpc' \in [Briefing -> BriefPC]
    BY <1>t, <2>1 DEF BudgetTyped, BriefPC
  <2> QED
    BY <2>1, <2>2, BudgetOpened
<1>10. ASSUME NEW b \in Briefing, AskBriefing(b) PROVE BudgetInv'
  <2>1. UNCHANGED <<spent, chatted, clock, tnow>> /\ tpc' = tpc /\ bpc[b] = "ask"
    BY <1>10 DEF AskBriefing, BriefOnly
  <2>2. CASE setup.runner /\ TryConsume(clock)
    <3>1. bpc' = [bpc EXCEPT ![b] = "bill"]
      BY <1>10, <2>2 DEF AskBriefing
    <3>2. bpc' \in [Briefing -> BriefPC] /\ clock \in Nat /\ bpc[b] # "bill"
      BY <1>t, <2>1, <3>1 DEF BudgetTyped, BriefPC
    <3>3. clock <= clock
      BY <3>2
    <3>4. \E c \in Briefing : bpc[c] # "bill" /\ bpc' = [bpc EXCEPT ![c] = "bill"]
      BY <3>1, <3>2, Zenon
    <3> QED
      BY <2>1, <2>2, <3>2, <3>3, <3>4, BudgetGranted
  <2>3. CASE ~(setup.runner /\ TryConsume(clock))
    <3>1. Moves(b, {"fallback", "idle"})
      BY <1>10, <2>1, <2>3 DEF AskBriefing, Unwritten
    <3> QED
      BY <1>1, <3>1 DEF BriefPC
  <2> QED
    BY <2>2, <2>3
<1>11. ASSUME NEW b \in Briefing, Brief(b) PROVE BudgetInv'
  BY <1>3, <1>4, <1>5, <1>6, <1>7, <1>8, <1>9, <1>10, <1>11 DEF Brief
<1> QED
  BY <1>2, <1>3, <1>4, <1>11

LEMMA BudgetTriage ==
  ASSUME BudgetInv, Triage \/ \E delivered \in BOOLEAN : Notify(delivered, FALSE)
  PROVE  BudgetInv'
<1> USE DEF passLocals, budgetVars, briefVars, worldVars, PassMoves, PassOver
<1>t. BudgetTyped
  BY DEF BudgetInv
<1>1. (/\ UNCHANGED <<spent, chatted, clock, bpc>> /\ tnow' \in {tnow, 0, clock}
       /\ (tpc' = "bill" => tpc = "bill")) => BudgetInv'
  BY <1>t, BudgetUnmoved DEF BudgetTyped
<1>2. CASE ReadUntriaged \/ Tier1 \/ ReadRecent \/ PassEnds
  BY <1>1, <1>2 DEF ReadUntriaged, Tier1, ReadRecent, PassEnds, PassOnly
<1>3. CASE Abandon \/ TellAbandoned \/ LogSend \/ HoldBack
  BY <1>1, <1>3 DEF Abandon, TellAbandoned, LogSend, HoldBack
<1>4. CASE \E e \in Event : DropMuted(e) \/ ChargeAttempt(e) \/ StampScore(e)
  BY <1>1, <1>4 DEF DropMuted, ChargeAttempt, StampScore
<1>5. CASE \E delivered, ok \in BOOLEAN : Notify(delivered, ok)
  BY <1>1, <1>5 DEF Notify
<1>6. CASE StartTier1
  <2>1. /\ StartRun /\ UNCHANGED <<chatted, clock, tnow, bpc>> /\ tpc = "bill" /\ tpc' # "bill"
    BY <1>6 DEF StartTier1
  <2> QED
    BY <1>t, <2>1, BudgetOpened DEF BudgetTyped
<1>7. CASE AskBudget
  <2>1. UNCHANGED <<spent, chatted, clock, bpc>> /\ tpc = "drop"
    BY <1>7 DEF AskBudget, PassOnly
  <2>2. CASE batch # {} /\ setup.runner /\ TryConsume(tnow)
    <3>1. tpc' = "bill" /\ tnow' = tnow
      BY <1>7, <2>2 DEF AskBudget
    <3> QED
      BY <1>t, <2>1, <2>2, <3>1, BudgetGranted DEF BudgetTyped
  <2>3. CASE ~(batch # {} /\ setup.runner /\ TryConsume(tnow))
    <3>1. tpc' = "idle" /\ tnow' = 0
      BY <1>7, <2>3 DEF AskBudget
    <3> QED
      BY <1>1, <2>1, <3>1
  <2> QED
    BY <2>2, <2>3
<1> QED
  BY <1>2, <1>3, <1>4, <1>5, <1>6, <1>7 DEF Triage

LEMMA BudgetNext ==
  ASSUME BudgetInv, [Next]_vars
  PROVE  BudgetInv'
<1> USE DEF passVars, passLocals, budgetVars, briefVars, worldVars
<1>t. BudgetTyped
  BY DEF BudgetInv
<1>1. (/\ UNCHANGED <<spent, clock, bpc>> /\ chatted' \in Seq(Nat) /\ tnow' \in {tnow, 0}
       /\ (tpc' = "bill" => tpc = "bill")) => BudgetInv'
  BY <1>t, BudgetUnmoved DEF BudgetTyped
<1>2. chatted \in Seq(Nat) /\ Append(chatted, clock) \in Seq(Nat)
  BY <1>t DEF BudgetTyped
<1>3. CASE (\E e \in Event : RunWatchPoll(e)) \/ Chat \/ Boot \/ UNCHANGED vars
  BY <1>1, <1>2, <1>3 DEF RunWatchPoll, Chat, Boot, vars
<1>4. CASE PassFails
  BY <1>1, <1>2, <1>4 DEF PassFails, PassOver, PassOnly
<1>5. CASE Crash
  <2>1. /\ UNCHANGED <<spent, chatted, clock>> /\ tnow' = 0 /\ tpc' = "idle"
        /\ bpc' = [b \in Briefing |-> "idle"]
    BY <1>5 DEF Crash, PassOver
  <2>2. bpc' \in [Briefing -> BriefPC] /\ \A b \in Briefing : bpc'[b] # "bill"
    BY <2>1 DEF BriefPC
  <2> QED
    BY <1>2, <2>1, <2>2, BudgetUnmoved
<1> QED
  BY <1>3, <1>4, <1>5, BudgetTriage, BudgetBriefings, BudgetTicks DEF Next

\* The unattended sessions of a day pass the ceiling by less than the number of
\* the jobs that may ask at once: the pass and the briefings.
THEOREM BudgetCeilingHolds == Spec => []BudgetHolds
<1>1. Init => BudgetInv
  <2> SUFFICES ASSUME Init PROVE BudgetInv
    OBVIOUS
  <2>1. /\ spent = <<>> /\ chatted = <<>> /\ clock = 0 /\ tnow = 0 /\ tpc = "idle"
        /\ bpc = [b \in Briefing |-> "idle"]
    BY DEF Init
  <2>2. BudgetTyped
    BY <2>1 DEF BudgetTyped, BriefPC
  <2>3. Billed = 0
    <3>1. BilledBriefings = {}
      BY <2>1 DEF BilledBriefings
    <3> QED
      BY <2>1, <3>1, FS_EmptySet DEF Billed
  <2> QED
    BY <2>1, <2>2, <2>3, WithinEmpty, BilledIsBounded DEF BudgetInv, AttentionAssumption
<1>2. BudgetInv => BudgetHolds
  <2> SUFFICES ASSUME BudgetInv, NEW t \in Time
               PROVE  Unattended(DayStart(t)) <= DailySessions + Cardinality(Briefing)
    BY DEF BudgetHolds
  <2>1. DayStart(t) \in Nat
    BY DayStartsInOrder DEF Time, AttentionAssumption
  <2>2. Unattended(DayStart(t)) = Within(spent, Day(DayStart(t)))
    <3>1. \A i \in DOMAIN spent : spent[i] \in Nat
      BY DEF BudgetInv, BudgetTyped
    <3>2. {i \in DOMAIN spent : DayStart(spent[i]) = DayStart(t)}
            = {i \in DOMAIN spent : spent[i] \in Day(DayStart(t))}
      BY <3>1 DEF Day
    <3> QED
      BY <3>2 DEF Unattended, Within
  <2> QED
    BY <2>1, <2>2 DEF BudgetInv
<1>3. BudgetInv /\ [Next]_vars => BudgetInv'
  BY BudgetNext
<1> QED
  BY <1>1, <1>2, <1>3, PTL DEF Spec
-----------------------------------------------------------------------------
(* A briefing an occurrence                                                 *)

\* A claimed briefing that may yet say something.
Owing == {"gather", "ask", "bill", "session", "send", "fallback"}

\* The occurrences claimed by now.
Claimed(b) == {o \in Occurs[b] : first[b] < o /\ o <= anchor[b]}

OccurrenceTyped ==
  /\ anchor \in [Briefing -> Nat \cup {NoRow}] /\ first \in [Briefing -> Nat \cup {NoRow}]
  /\ mailed \in [Briefing -> Nat] /\ bpc \in [Briefing -> BriefPC]
  /\ clock \in Nat

\* What is owed and what was sent is covered by what was claimed.
OccurrenceInv ==
  /\ OccurrenceTyped
  /\ \A b \in Briefing : /\ anchor[b] <= clock
                         /\ anchor[b] # NoRow => first[b] <= anchor[b]
                         /\ mailed[b] + (IF bpc[b] \in Owing THEN 1 ELSE 0)
                              <= Cardinality(Claimed(b))

LEMMA ClaimedIsFinite ==
  ASSUME OccurrenceTyped, NEW b \in Briefing, NEW n \in Nat
  PROVE  LET S == {o \in Occurs[b] : first[b] < o /\ o <= n}
         IN IsFiniteSet(S) /\ Cardinality(S) \in Nat
<1>1. {o \in Occurs[b] : first[b] < o /\ o <= n} \subseteq 0..n
  BY DEF OccurrenceTyped, NoRow, AttentionAssumption
<1>2. IsFiniteSet(0..n)
  BY FS_Interval
<1> QED
  BY <1>1, <1>2, FS_Subset, FS_CardinalityType

\* Nothing is registered or claimed, and no briefing comes to owe more.
LEMMA OccurrenceUnmoved ==
  ASSUME OccurrenceInv, UNCHANGED <<anchor, first, mailed>>, clock' \in {clock, clock + 1},
         bpc' \in [Briefing -> BriefPC],
         \A b \in Briefing : bpc'[b] \in Owing => bpc[b] \in Owing
  PROVE  OccurrenceInv'
<1>1. OccurrenceTyped'
  BY DEF OccurrenceInv, OccurrenceTyped
<1>2. ASSUME NEW b \in Briefing
      PROVE  /\ anchor'[b] <= clock' /\ (anchor'[b] # NoRow => first'[b] <= anchor'[b])
             /\ mailed'[b] + (IF bpc'[b] \in Owing THEN 1 ELSE 0) <= Cardinality(Claimed(b)')
  <2>1. Claimed(b)' = Claimed(b)
    BY DEF Claimed
  <2>2. anchor[b] <= clock' /\ (anchor[b] # NoRow => first[b] <= anchor[b])
    BY DEF OccurrenceInv, OccurrenceTyped, NoRow
  <2>3. Cardinality(Claimed(b)) \in Nat
    <3>1. CASE anchor[b] = NoRow
      <4>1. Claimed(b) = {}
        BY <3>1 DEF Claimed, OccurrenceInv, OccurrenceTyped, NoRow, AttentionAssumption
      <4> QED
        BY <4>1, FS_EmptySet
    <3>2. CASE anchor[b] \in Nat
      BY <3>2, ClaimedIsFinite DEF Claimed, OccurrenceInv
    <3> QED
      BY <3>1, <3>2 DEF OccurrenceInv, OccurrenceTyped
  <2>4. /\ mailed[b] \in Nat
        /\ mailed[b] + (IF bpc[b] \in Owing THEN 1 ELSE 0) <= Cardinality(Claimed(b))
        /\ bpc'[b] \in Owing => bpc[b] \in Owing
    BY DEF OccurrenceInv, OccurrenceTyped
  <2>5. mailed[b] + (IF bpc'[b] \in Owing THEN 1 ELSE 0) <= Cardinality(Claimed(b))
    BY <2>3, <2>4
  <2> QED
    BY <2>1, <2>2, <2>5
<1> QED
  BY <1>1, <1>2 DEF OccurrenceInv

\* A briefing moves on, over, or is delivered.
LEMMA OccurrenceMoves ==
  ASSUME OccurrenceInv, NEW b \in Briefing, NEW p \in BriefPC, bpc[b] \in Owing \/ p \notin Owing,
         bpc' = [bpc EXCEPT ![b] = p],
         UNCHANGED <<anchor, first, clock>>,
         \/ mailed' = mailed
         \/ mailed' = [mailed EXCEPT ![b] = @ + 1] /\ bpc[b] \in Owing /\ p \notin Owing
  PROVE  OccurrenceInv'
<1>t. OccurrenceTyped
  BY DEF OccurrenceInv
<1>1. bpc' \in [Briefing -> BriefPC] /\ bpc'[b] = p /\ \A c \in Briefing \ {b} : bpc'[c] = bpc[c]
  BY <1>t DEF OccurrenceTyped
<1>2. CASE mailed' = mailed
  <2>1. \A c \in Briefing : bpc'[c] \in Owing => bpc[c] \in Owing
    BY <1>1
  <2> QED
    BY <1>1, <1>2, <2>1, OccurrenceUnmoved
<1>3. CASE mailed' = [mailed EXCEPT ![b] = @ + 1] /\ bpc[b] \in Owing /\ p \notin Owing
  <2>1. /\ mailed' \in [Briefing -> Nat] /\ mailed'[b] = mailed[b] + 1
        /\ \A c \in Briefing \ {b} : mailed'[c] = mailed[c]
    BY <1>t, <1>3 DEF OccurrenceTyped
  <2>2. OccurrenceTyped'
    BY <1>t, <1>1, <2>1 DEF OccurrenceTyped
  <2>3. ASSUME NEW c \in Briefing
        PROVE  mailed'[c] + (IF bpc'[c] \in Owing THEN 1 ELSE 0) <= Cardinality(Claimed(c)')
    <3>1. Claimed(c)' = Claimed(c)
      BY DEF Claimed
    <3>2. /\ mailed[c] \in Nat
          /\ mailed[c] + (IF bpc[c] \in Owing THEN 1 ELSE 0) <= Cardinality(Claimed(c))
      BY <1>t DEF OccurrenceInv, OccurrenceTyped
    <3>3. CASE c = b
      <4>1. mailed'[c] + (IF bpc'[c] \in Owing THEN 1 ELSE 0)
              = mailed[c] + (IF bpc[c] \in Owing THEN 1 ELSE 0)
        BY <1>1, <1>3, <2>1, <3>2, <3>3
      <4> QED
        BY <3>1, <3>2, <4>1
    <3>4. CASE c # b
      BY <1>1, <2>1, <3>1, <3>2, <3>4
    <3> QED
      BY <3>3, <3>4
  <2>4. \A c \in Briefing : anchor'[c] <= clock' /\ (anchor'[c] # NoRow => first'[c] <= anchor'[c])
    BY DEF OccurrenceInv
  <2> QED
    BY <2>2, <2>3, <2>4 DEF OccurrenceInv
<1> QED
  BY <1>2, <1>3

\* A claim moves the anchor past an occurrence it had not passed.
LEMMA OccurrenceClaimed ==
  ASSUME OccurrenceInv, NEW b \in Briefing, Claim(b)
  PROVE  OccurrenceInv'
<1>t. OccurrenceTyped
  BY DEF OccurrenceInv
<1>1. /\ bpc[b] = "idle" /\ Due(b)
      /\ anchor' = [anchor EXCEPT ![b] = clock] /\ bpc' = [bpc EXCEPT ![b] = "gather"]
      /\ UNCHANGED <<first, mailed, clock>>
  BY DEF Claim, BriefMoves, worldVars
<1>2. /\ anchor' \in [Briefing -> Nat \cup {NoRow}] /\ anchor'[b] = clock
      /\ \A c \in Briefing \ {b} : anchor'[c] = anchor[c]
  BY <1>t, <1>1 DEF OccurrenceTyped
<1>3. /\ bpc' \in [Briefing -> BriefPC] /\ bpc'[b] = "gather"
      /\ \A c \in Briefing \ {b} : bpc'[c] = bpc[c]
  BY <1>t, <1>1 DEF OccurrenceTyped, BriefPC
<1>4. OccurrenceTyped'
  BY <1>t, <1>1, <1>2, <1>3 DEF OccurrenceTyped
<1>5. PICK o \in Occurs[b] : anchor[b] < o /\ o <= clock
  BY <1>1 DEF Due
<1>6. anchor[b] \in Nat /\ first[b] <= anchor[b] /\ anchor[b] <= clock /\ o \in Nat
      /\ first[b] \in Nat \cup {NoRow} /\ clock \in Nat
  BY <1>t, <1>1, <1>5 DEF Due, OccurrenceInv, OccurrenceTyped, AttentionAssumption
<1>7. /\ IsFiniteSet(Claimed(b)) /\ Cardinality(Claimed(b)) \in Nat
      /\ IsFiniteSet(Claimed(b)') /\ Cardinality(Claimed(b)') \in Nat
  BY <1>t, <1>1, <1>2, <1>6, ClaimedIsFinite DEF Claimed
<1>8. Cardinality(Claimed(b)) + 1 <= Cardinality(Claimed(b)')
  <2>1. o \notin Claimed(b) /\ Claimed(b) \cup {o} \subseteq Claimed(b)'
    BY <1>1, <1>2, <1>5, <1>6 DEF Claimed, NoRow, AttentionAssumption
  <2>2. Cardinality(Claimed(b) \cup {o}) = Cardinality(Claimed(b)) + 1
    BY <1>7, <2>1, FS_AddElement
  <2>3. Cardinality(Claimed(b) \cup {o}) <= Cardinality(Claimed(b)')
    BY <1>7, <2>1, FS_Subset
  <2> QED
    BY <2>2, <2>3
<1>9. ASSUME NEW c \in Briefing
      PROVE  /\ anchor'[c] <= clock' /\ (anchor'[c] # NoRow => first'[c] <= anchor'[c])
             /\ mailed'[c] + (IF bpc'[c] \in Owing THEN 1 ELSE 0) <= Cardinality(Claimed(c)')
  <2>1. CASE c = b
    <3>1. mailed[b] \in Nat /\ mailed[b] <= Cardinality(Claimed(b))
      BY <1>t, <1>1 DEF OccurrenceInv, OccurrenceTyped, Owing
    <3>2. mailed'[b] + 1 <= Cardinality(Claimed(b)') /\ bpc'[b] \in Owing
      BY <1>1, <1>3, <1>7, <1>8, <3>1 DEF Owing
    <3>3. anchor'[b] <= clock' /\ first'[b] <= anchor'[b]
      BY <1>1, <1>2, <1>6 DEF NoRow
    <3> QED
      BY <2>1, <3>2, <3>3
  <2>2. CASE c # b
    <3>1. Claimed(c)' = Claimed(c)
      BY <1>1, <1>2, <2>2 DEF Claimed
    <3> QED
      BY <1>1, <1>2, <1>3, <2>2, <3>1 DEF OccurrenceInv
  <2> QED
    BY <2>1, <2>2
<1> QED
  BY <1>4, <1>9 DEF OccurrenceInv

\* A briefing is registered: nothing is owed for what was before.
LEMMA OccurrenceRegistered ==
  ASSUME OccurrenceInv, Boot
  PROVE  OccurrenceInv'
<1>t. OccurrenceTyped
  BY DEF OccurrenceInv
<1>1. /\ anchor' = [b \in Briefing |-> IF anchor[b] = NoRow THEN clock ELSE anchor[b]]
      /\ first' = [b \in Briefing |-> IF anchor[b] = NoRow THEN clock ELSE first[b]]
      /\ UNCHANGED <<bpc, mailed, clock>>
  BY DEF Boot, briefVars, ownerVars
<1>2. OccurrenceTyped'
  BY <1>t, <1>1 DEF OccurrenceTyped
<1>3. ASSUME NEW b \in Briefing
      PROVE  /\ anchor'[b] <= clock' /\ (anchor'[b] # NoRow => first'[b] <= anchor'[b])
             /\ mailed'[b] + (IF bpc'[b] \in Owing THEN 1 ELSE 0) <= Cardinality(Claimed(b)')
  <2>1. CASE anchor[b] = NoRow
    <3>1. anchor'[b] = clock /\ first'[b] = clock
      BY <1>1, <2>1
    <3>2. Claimed(b) = {} /\ Claimed(b)' = {}
      BY <1>t, <1>2, <2>1, <3>1 DEF Claimed, OccurrenceTyped, NoRow, AttentionAssumption
    <3>3. mailed[b] + (IF bpc[b] \in Owing THEN 1 ELSE 0) <= Cardinality(Claimed(b))
      BY DEF OccurrenceInv
    <3>4. mailed'[b] + (IF bpc'[b] \in Owing THEN 1 ELSE 0) <= Cardinality(Claimed(b)')
      BY <1>1, <3>2, <3>3
    <3>5. clock' = clock /\ clock \in Nat
      BY <1>t, <1>1 DEF OccurrenceTyped
    <3> QED
      BY <3>1, <3>4, <3>5
  <2>2. CASE anchor[b] # NoRow
    <3>1. anchor'[b] = anchor[b] /\ first'[b] = first[b]
      BY <1>1, <2>2
    <3>2. Claimed(b)' = Claimed(b)
      BY <3>1 DEF Claimed
    <3> QED
      BY <1>1, <3>1, <3>2 DEF OccurrenceInv
  <2> QED
    BY <2>1, <2>2
<1> QED
  BY <1>2, <1>3 DEF OccurrenceInv

LEMMA OccurrenceNext ==
  ASSUME OccurrenceInv, [Next]_vars
  PROVE  OccurrenceInv'
<1> USE DEF cronVars, worldVars, ownerVars
<1>t. OccurrenceTyped
  BY DEF OccurrenceInv
<1> DEFINE Still == UNCHANGED <<anchor, first, mailed, bpc>> /\ clock' \in {clock, clock + 1}
<1>1. Still => OccurrenceInv'
  BY <1>t, OccurrenceUnmoved DEF OccurrenceTyped
<1>2. CASE Triage \/ PassFails \/ \E delivered \in BOOLEAN : Notify(delivered, FALSE)
  <2> USE DEF briefVars, PassOnly
  <2>1. CASE ReadUntriaged \/ AskBudget \/ Tier1 \/ ReadRecent \/ PassEnds \/ PassFails
    BY <1>1, <2>1 DEF ReadUntriaged, AskBudget, Tier1, ReadRecent, PassEnds, PassFails
  <2>2. CASE StartTier1 \/ Abandon \/ TellAbandoned \/ LogSend \/ HoldBack
    BY <1>1, <2>2 DEF StartTier1, Abandon, TellAbandoned, LogSend, HoldBack
  <2>3. CASE \E e \in Event : DropMuted(e) \/ ChargeAttempt(e) \/ StampScore(e)
    BY <1>1, <2>3 DEF DropMuted, ChargeAttempt, StampScore
  <2>4. CASE \E delivered, ok \in BOOLEAN : Notify(delivered, ok)
    BY <1>1, <2>4 DEF Notify
  <2> QED
    BY <1>2, <2>1, <2>2, <2>3, <2>4 DEF Triage
<1>3. CASE (\E e \in Event : RunWatchPoll(e)) \/ Chat \/ Tick \/ UNCHANGED vars
  BY <1>1, <1>3 DEF RunWatchPoll, Chat, Tick, vars, briefVars
<1>4. CASE Boot
  BY <1>4, OccurrenceRegistered
<1>5. CASE Crash
  <2>1. /\ UNCHANGED <<anchor, first, mailed, clock>> /\ bpc' = [b \in Briefing |-> "idle"]
    BY <1>5 DEF Crash
  <2>2. bpc' \in [Briefing -> BriefPC] /\ \A b \in Briefing : bpc'[b] \notin Owing
    BY <2>1 DEF BriefPC, Owing
  <2> QED
    BY <2>1, <2>2, OccurrenceUnmoved
<1> DEFINE Moves(b, p) == /\ p \in BriefPC /\ (bpc[b] \in Owing \/ p \notin Owing)
                          /\ bpc' = [bpc EXCEPT ![b] = p]
                          /\ UNCHANGED <<anchor, first, mailed, clock>>
           Delivers(b, p) == /\ bpc[b] \in Owing /\ p \in BriefPC \ Owing
                             /\ bpc' = [bpc EXCEPT ![b] = p]
                             /\ UNCHANGED <<anchor, first, clock>>
                             /\ \/ mailed' = mailed
                                \/ mailed' = [mailed EXCEPT ![b] = @ + 1]
<1>6. \A b \in Briefing, p \in BriefPC : Moves(b, p) => OccurrenceInv'
  BY OccurrenceMoves
<1>7. \A b \in Briefing, p \in BriefPC : Delivers(b, p) => OccurrenceInv'
  BY OccurrenceMoves
<1> USE DEF BriefMoves, BriefOnly, BriefPC, Owing
<1>8. ASSUME NEW b \in Briefing, BriefingFails(b) PROVE OccurrenceInv'
  <2>1. Moves(b, "idle")
    BY <1>8 DEF BriefingFails
  <2> QED
    BY <1>6, <2>1
<1>9. ASSUME NEW b \in Briefing, NEW delivered \in BOOLEAN, NEW ok \in BOOLEAN,
             SendBriefing(b, delivered, ok)
      PROVE  OccurrenceInv'
  <2>1. Delivers(b, "idle") \/ Delivers(b, "clear")
    BY <1>9 DEF SendBriefing
  <2> QED
    BY <1>7, <2>1
<1>10. ASSUME NEW delivered, NEW ok \in BOOLEAN, PushFallback(delivered, ok) PROVE OccurrenceInv'
  <2>1. Delivers(Morning, "idle") /\ Morning \in Briefing
    BY <1>10 DEF PushFallback, AttentionAssumption
  <2> QED
    BY <1>7, <2>1
<1>11. ASSUME NEW b \in Briefing, Gather(b) PROVE OccurrenceInv'
  <2>1. Moves(b, "ask") \/ Moves(b, "fallback")
    BY <1>11 DEF Gather
  <2> QED
    BY <1>6, <2>1
<1>12. ASSUME NEW b \in Briefing, AskBriefing(b) \/ Written(b) PROVE OccurrenceInv'
  <2>1. Moves(b, "bill") \/ Moves(b, "send") \/ Moves(b, "fallback") \/ Moves(b, "idle")
    BY <1>12 DEF AskBriefing, Written, Unwritten
  <2> QED
    BY <1>6, <2>1
<1>13. ASSUME NEW b \in Briefing, StartBriefing(b) PROVE OccurrenceInv'
  <2>1. Moves(b, "session")
    BY <1>13 DEF StartBriefing
  <2> QED
    BY <1>6, <2>1
<1>14. CASE ClearDigest
  <2>1. Moves(Morning, "idle") /\ Morning \in Briefing
    BY <1>14 DEF ClearDigest, AttentionAssumption
  <2> QED
    BY <1>6, <2>1
<1>15. ASSUME NEW b \in Briefing, Brief(b) PROVE OccurrenceInv'
  BY <1>9, <1>10, <1>11, <1>12, <1>13, <1>14, <1>15, OccurrenceClaimed DEF Brief
<1> QED
  BY <1>2, <1>3, <1>4, <1>5, <1>8, <1>9, <1>10, <1>15 DEF Next

\* A briefing is sent at most once for an occurrence of its schedule, whatever
\* crashes and restarts there were: the anchor moves before the briefing is written.
THEOREM BriefedOncePerOccurrenceHolds == Spec => []BriefedOncePerOccurrence
<1>1. Init => OccurrenceInv
  <2> SUFFICES ASSUME Init PROVE OccurrenceInv
    OBVIOUS
  <2>1. /\ anchor = [b \in Briefing |-> NoRow] /\ first = [b \in Briefing |-> NoRow]
        /\ mailed = [b \in Briefing |-> 0] /\ bpc = [b \in Briefing |-> "idle"] /\ clock = 0
    BY DEF Init
  <2>2. OccurrenceTyped
    BY <2>1 DEF OccurrenceTyped, BriefPC
  <2>3. \A b \in Briefing : Claimed(b) = {}
    BY <2>1 DEF Claimed, NoRow, AttentionAssumption
  <2>4. ASSUME NEW b \in Briefing
        PROVE  /\ anchor[b] <= clock /\ anchor[b] = NoRow
               /\ mailed[b] + (IF bpc[b] \in Owing THEN 1 ELSE 0) <= Cardinality(Claimed(b))
    <3>1. Cardinality(Claimed(b)) = 0 /\ mailed[b] = 0 /\ bpc[b] \notin Owing
      BY <2>1, <2>3, FS_EmptySet DEF Owing
    <3>2. anchor[b] = NoRow /\ NoRow <= clock
      BY <2>1 DEF NoRow
    <3> QED
      BY <3>1, <3>2
  <2> QED
    BY <2>2, <2>4 DEF OccurrenceInv
<1>2. OccurrenceInv => BriefedOncePerOccurrence
  <2> SUFFICES ASSUME OccurrenceInv, NEW b \in Briefing
               PROVE  mailed[b] <= Cardinality({o \in Occurs[b] : first[b] < o /\ o <= clock})
    BY DEF BriefedOncePerOccurrence
  <2> DEFINE S == {o \in Occurs[b] : first[b] < o /\ o <= clock}
  <2>1. OccurrenceTyped /\ clock \in Nat /\ mailed[b] \in Nat
    BY DEF OccurrenceInv, OccurrenceTyped
  <2>2. IsFiniteSet(S) /\ Cardinality(S) \in Nat
    BY <2>1, ClaimedIsFinite
  <2>3. Claimed(b) \subseteq S
    <3>1. anchor[b] <= clock /\ anchor[b] \in Int /\ clock \in Int
      BY DEF OccurrenceInv, OccurrenceTyped, NoRow
    <3>2. Occurs[b] \subseteq Nat
      BY DEF AttentionAssumption
    <3> QED
      BY <3>1, <3>2 DEF Claimed
  <2>4. Cardinality(Claimed(b)) <= Cardinality(S) /\ Cardinality(Claimed(b)) \in Nat
    BY <2>2, <2>3, FS_Subset, FS_CardinalityType
  <2>5. mailed[b] + (IF bpc[b] \in Owing THEN 1 ELSE 0) <= Cardinality(Claimed(b))
    BY DEF OccurrenceInv
  <2> HIDE DEF S
  <2>6. mailed[b] <= Cardinality(S)
    BY <2>1, <2>2, <2>4, <2>5
  <2> QED
    BY <2>6 DEF S
<1>3. OccurrenceInv /\ [Next]_vars => OccurrenceInv'
  BY OccurrenceNext
<1> QED
  BY <1>1, <1>2, <1>3, PTL DEF Spec
-----------------------------------------------------------------------------
(* The morning is never silent                                              *)

\* Until something fails, a morning briefing that is over, or that has only its
\* digest to clear, has spoken, if there is anyone to speak through; and before
\* the process first comes up there was none.
SpokenInv ==
  /\ bpc \in [Briefing -> BriefPC] /\ trouble \in Nat
  /\ trouble = 0 =>
       /\ (bpc[Morning] = "idle" /\ setup.pusher) => spoke
       /\ bpc[Morning] = "clear" => spoke
       /\ proc = "down" => bpc[Morning] = "idle" /\ spoke

\* The morning briefing stands where it stood.
LEMMA SpokenStill ==
  ASSUME SpokenInv, UNCHANGED <<setup, proc, trouble, spoke>>,
         bpc' \in [Briefing -> BriefPC], bpc'[Morning] = bpc[Morning]
  PROVE  SpokenInv'
BY DEF SpokenInv

\* Something failed.
LEMMA SpokenFails ==
  ASSUME SpokenInv, Trouble, bpc' \in [Briefing -> BriefPC]
  PROVE  SpokenInv'
BY DEF SpokenInv, Trouble

\* The morning briefing moves on, to be over only with something said.
LEMMA SpokenMoves ==
  ASSUME SpokenInv, NEW p \in BriefPC, bpc[Morning] # "idle", UNCHANGED <<setup, proc, trouble>>,
         bpc' = [bpc EXCEPT ![Morning] = p],
         p \in {"idle", "clear"} => spoke' \/ (p = "idle" /\ ~setup.pusher)
  PROVE  SpokenInv'
<1>1. Morning \in Briefing
  BY DEF AttentionAssumption
<1>2. bpc' \in [Briefing -> BriefPC] /\ bpc'[Morning] = p
  BY <1>1 DEF SpokenInv
<1> QED
  BY <1>2 DEF SpokenInv

LEMMA SpokenNext ==
  ASSUME SpokenInv, [Next]_vars
  PROVE  SpokenInv'
<1> USE DEF worldVars, ownerVars, NoTrouble
<1>t. Morning \in Briefing /\ bpc \in [Briefing -> BriefPC]
  BY DEF AttentionAssumption, SpokenInv
<1>1. UNCHANGED <<setup, proc, trouble, spoke, bpc>> => SpokenInv'
  BY <1>t, SpokenStill
<1>2. CASE Triage
  <2> USE DEF briefVars, PassOnly
  <2>1. CASE ReadUntriaged \/ AskBudget \/ Tier1 \/ ReadRecent \/ PassEnds
    BY <1>1, <2>1 DEF ReadUntriaged, AskBudget, Tier1, ReadRecent, PassEnds
  <2>2. CASE StartTier1 \/ Abandon \/ TellAbandoned \/ LogSend \/ HoldBack
    BY <1>1, <2>2 DEF StartTier1, Abandon, TellAbandoned, LogSend, HoldBack
  <2>3. CASE \E e \in Event : DropMuted(e) \/ ChargeAttempt(e) \/ StampScore(e)
    BY <1>1, <2>3 DEF DropMuted, ChargeAttempt, StampScore
  <2>4. CASE Notify(TRUE, TRUE)
    BY <1>1, <2>4 DEF Notify
  <2> QED
    BY <1>2, <2>1, <2>2, <2>3, <2>4 DEF Triage
<1>3. CASE (\E e \in Event : RunWatchPoll(e)) \/ Chat \/ Tick \/ UNCHANGED vars
  BY <1>1, <1>3 DEF RunWatchPoll, Chat, Tick, vars, briefVars
<1>4. CASE PassFails \/ \E delivered \in BOOLEAN : Notify(delivered, FALSE)
  <2>1. Trouble /\ bpc' = bpc
    BY <1>4 DEF PassFails, PassOnly, Notify, briefVars
  <2> QED
    BY <1>t, <2>1, SpokenFails
<1>5. CASE Crash
  <2>1. Trouble /\ bpc' = [b \in Briefing |-> "idle"]
    BY <1>5 DEF Crash
  <2>2. bpc' \in [Briefing -> BriefPC]
    BY <2>1 DEF BriefPC
  <2> QED
    BY <2>1, <2>2, SpokenFails
<1>6. CASE Boot
  <2>1. proc = "down" /\ proc' = "up" /\ UNCHANGED <<bpc, spoke, trouble>>
    BY <1>6 DEF Boot, briefVars
  <2> QED
    BY <2>1 DEF SpokenInv
<1> USE DEF BriefMoves
<1>7. ASSUME NEW b \in Briefing, NEW p \in BriefPC, bpc' = [bpc EXCEPT ![b] = p],
             UNCHANGED <<setup, proc, trouble>>, b # Morning, spoke' = spoke
      PROVE  SpokenInv'
  <2>1. bpc' \in [Briefing -> BriefPC] /\ bpc'[Morning] = bpc[Morning]
    BY <1>t, <1>7
  <2> QED
    BY <1>7, <2>1, SpokenStill
<1>8. ASSUME NEW b \in Briefing, NEW p \in BriefPC, bpc' = [bpc EXCEPT ![b] = p], Trouble
      PROVE  SpokenInv'
  <2>1. bpc' \in [Briefing -> BriefPC]
    BY <1>t, <1>8
  <2> QED
    BY <1>8, <2>1, SpokenFails
<1>9. ASSUME NEW b \in Briefing, BriefingFails(b) PROVE SpokenInv'
  <2>1. bpc' = [bpc EXCEPT ![b] = "idle"] /\ Trouble
    BY <1>9 DEF BriefingFails
  <2> QED
    BY <1>8, <2>1 DEF BriefPC
<1>10. ASSUME NEW b \in Briefing, NEW delivered \in BOOLEAN, SendBriefing(b, delivered, FALSE)
       PROVE  SpokenInv'
  <2>1. bpc' = [bpc EXCEPT ![b] = "idle"] /\ Trouble
    BY <1>10 DEF SendBriefing
  <2> QED
    BY <1>8, <2>1 DEF BriefPC
<1>11. ASSUME NEW delivered \in BOOLEAN, PushFallback(delivered, FALSE) PROVE SpokenInv'
  <2>1. bpc' = [bpc EXCEPT ![Morning] = "idle"] /\ Trouble
    BY <1>11 DEF PushFallback
  <2> QED
    BY <1>t, <1>8, <2>1 DEF BriefPC
<1>12. ASSUME NEW b \in Briefing, Claim(b) PROVE SpokenInv'
  <2>1. /\ bpc' = [bpc EXCEPT ![b] = "gather"] /\ proc = "up"
        /\ spoke' = IF b = Morning THEN FALSE ELSE spoke
        /\ UNCHANGED <<setup, proc, trouble>>
    BY <1>12 DEF Claim, Up
  <2>2. CASE b = Morning
    <3>1. bpc' \in [Briefing -> BriefPC] /\ bpc'[Morning] = "gather"
      BY <1>t, <2>1, <2>2 DEF BriefPC
    <3> QED
      BY <2>1, <3>1 DEF SpokenInv
  <2>3. CASE b # Morning
    BY <1>7, <2>1, <2>3 DEF BriefPC
  <2> QED
    BY <2>2, <2>3
<1>13. ASSUME NEW b \in Briefing, Gather(b) \/ AskBriefing(b) \/ StartBriefing(b) \/ Written(b)
       PROVE  SpokenInv'
  <2>1. /\ UNCHANGED <<setup, proc, trouble, spoke>> /\ bpc[b] # "idle"
        /\ \E p \in {"ask", "bill", "session", "send", "fallback", "idle"} :
             bpc' = [bpc EXCEPT ![b] = p] /\ (b = Morning => p # "idle")
    BY <1>13 DEF Gather, AskBriefing, StartBriefing, Written, Unwritten, BriefOnly
  <2>2. PICK p \in {"ask", "bill", "session", "send", "fallback", "idle"} :
          bpc' = [bpc EXCEPT ![b] = p] /\ (b = Morning => p # "idle")
    BY <2>1
  <2>3. CASE b = Morning
    BY <2>1, <2>2, <2>3, SpokenMoves DEF BriefPC
  <2>4. CASE b # Morning
    BY <1>7, <2>1, <2>2, <2>4 DEF BriefPC
  <2> QED
    BY <2>3, <2>4
<1>14. ASSUME NEW b \in Briefing, SendBriefing(b, TRUE, TRUE) PROVE SpokenInv'
  <2>1. /\ UNCHANGED <<setup, proc, trouble>> /\ bpc[b] # "idle"
        /\ spoke' = (spoke \/ b = Morning)
        /\ bpc' = [bpc EXCEPT ![b] = IF b = Morning THEN "clear" ELSE "idle"]
    BY <1>14 DEF SendBriefing
  <2>2. CASE b = Morning
    BY <2>1, <2>2, SpokenMoves DEF BriefPC
  <2>3. CASE b # Morning
    <3>1. bpc' = [bpc EXCEPT ![b] = "idle"]
      BY <2>1, <2>3
    <3>2. bpc' \in [Briefing -> BriefPC] /\ bpc'[Morning] = bpc[Morning]
      BY <1>t, <2>3, <3>1 DEF BriefPC
    <3> QED
      BY <2>1, <2>3, <3>2 DEF SpokenInv
  <2> QED
    BY <2>2, <2>3
<1>15. CASE ClearDigest
  <2>1. /\ UNCHANGED <<setup, proc, trouble, spoke>> /\ bpc[Morning] = "clear"
        /\ bpc' = [bpc EXCEPT ![Morning] = "idle"]
    BY <1>15 DEF ClearDigest
  <2>2. CASE trouble = 0
    <3>1. spoke
      BY <2>1, <2>2 DEF SpokenInv
    <3> QED
      BY <2>1, <3>1, SpokenMoves DEF BriefPC
  <2>3. CASE trouble # 0
    <3>1. bpc' \in [Briefing -> BriefPC]
      BY <1>t, <2>1 DEF BriefPC
    <3> QED
      BY <2>1, <2>3, <3>1 DEF SpokenInv
  <2> QED
    BY <2>2, <2>3
<1>16. CASE PushFallback(setup.pusher, TRUE)
  <2>1. /\ UNCHANGED <<setup, proc, trouble>> /\ bpc[Morning] # "idle"
        /\ bpc' = [bpc EXCEPT ![Morning] = "idle"] /\ spoke' = (spoke \/ setup.pusher)
    BY <1>16 DEF PushFallback
  <2> QED
    BY <2>1, SpokenMoves DEF BriefPC
<1>17. ASSUME NEW b \in Briefing, Brief(b) PROVE SpokenInv'
  BY <1>12, <1>13, <1>14, <1>15, <1>16, <1>17 DEF Brief
<1> QED
  BY <1>2, <1>3, <1>4, <1>5, <1>6, <1>9, <1>10, <1>11, <1>17 DEF Next

\* While nothing fails, a morning briefing that is over has said something: the
\* briefing, or the one line in place of it.
THEOREM MorningIsNeverSilentHolds == Spec => []MorningIsNeverSilent
<1>1. Init => SpokenInv
  BY DEF Init, SpokenInv, BriefPC
<1>2. SpokenInv => MorningIsNeverSilent
  BY DEF SpokenInv, MorningIsNeverSilent
<1>3. SpokenInv /\ [Next]_vars => SpokenInv'
  BY SpokenNext
<1> QED
  BY <1>1, <1>2, <1>3, PTL DEF Spec
=============================================================================
