------------------------------ MODULE LedgerProofs ------------------------------
(***************************************************************************)
(* What TLAPS proves of Ledger for every value of its constants: no line   *)
(* is booked twice however often a run is repeated; nothing is booked      *)
(* without the owner's J on the row, or on that of an identical line; a    *)
(* committed run that reports no failure has booked all it was to book;    *)
(* the receipts are matched stably; and a voucher balances and says what   *)
(* its bank line says, while nobody codes a row with the bank's account.   *)
(***************************************************************************)
EXTENDS Ledger, FiniteSetTheorems, SequenceTheorems, WellFoundedInduction, TLAPS

USE LedgerAssumption

-----------------------------------------------------------------------------
(* Types                                                                    *)

Types ==
  /\ seb \in Seq(BankLine) /\ Len(seb) \in 0..MaxLines
  /\ rows \in 0..Len(seb)
  /\ godkann \in [Row -> BOOLEAN] /\ own \in [Row -> BOOLEAN]
  /\ booked \in [BankLine -> Nat]
  /\ pc \in {"idle", "row"} /\ at \in Nat
  /\ pc = "row" => at >= 1

LEMMA TypesInit == ASSUME Init PROVE Types
  BY DEF Init, Types, Row

\* Taking a line: the rows there were stay what they were.
LEMMA AppendKeeps ==
  ASSUME Types, NEW line \in BankLine, AppendLine(line)
  PROVE  /\ seb' \in Seq(BankLine) /\ Len(seb') = Len(seb) + 1 /\ Len(seb) < MaxLines
         /\ \A i \in 1..Len(seb) : seb'[i] = seb[i]
         /\ seb'[Len(seb')] = line
BY DEF AppendLine, Types

LEMMA TypesNext ==
  ASSUME Types, [Next]_vars
  PROVE  Types'
<1> USE DEF Types, sheetVars, bookVars, runVars, inputVars, Row
<1>1. CASE \E line \in BankLine : AppendLine(line)
  <2>1. PICK line \in BankLine : AppendLine(line)
    BY <1>1
  <2>2. seb' \in Seq(BankLine) /\ Len(seb') = Len(seb) + 1 /\ Len(seb) < MaxLines
    BY <2>1, AppendKeeps
  <2>3. UNCHANGED <<rows, godkann, own, booked, pc, at>>
    BY <2>1 DEF AppendLine
  <2> QED
    BY <2>2, <2>3
<1>2. CASE \E receipt \in Receipts : RecordReceipt(receipt)
  BY <1>2 DEF RecordReceipt
<1>3. CASE \E i \in Row, j \in BOOLEAN : WriteJ(i, j)
  <2>1. PICK i \in Row, j \in BOOLEAN : WriteJ(i, j)
    BY <1>3
  <2>2. godkann' \in [Row -> BOOLEAN] /\ own' \in [Row -> BOOLEAN]
    BY <2>1 DEF WriteJ
  <2>3. UNCHANGED <<seb, rows, booked, pc, at>>
    BY <2>1 DEF WriteJ, Edit
  <2> QED
    BY <2>2, <2>3
<1>4. CASE \E i \in Row, a \in Accounts \cup {Blank} : WriteKonto(i, a)
  BY <1>4 DEF WriteKonto, Edit
<1>5. CASE \E i \in Row, f \in Figures : WriteFigure(i, f)
  BY <1>5 DEF WriteFigure, Edit
<1>6. CASE Propose
  <2>1. godkann' = [i \in Row |-> i \in DOMAIN seb /\ \E e \in Prev(seb[i]) : godkann[e]]
    BY <1>6 DEF Propose
  <2>2. godkann' \in [Row -> BOOLEAN]
    BY <2>1
  <2>3. rows' = Len(seb) /\ UNCHANGED <<seb, own, booked, pc, at>>
    BY <1>6 DEF Propose
  <2> QED
    BY <2>2, <2>3
<1>7. CASE \E year \in FiscalYears, committing \in BOOLEAN : StartPost(year, committing)
  BY <1>7 DEF StartPost
<1>8. CASE PassRow
  BY <1>8 DEF PassRow, NextRow
<1>9. CASE \E accepted, answered \in BOOLEAN : PostRow(accepted, answered)
  <2>1. PICK accepted, answered \in BOOLEAN : PostRow(accepted, answered)
    BY <1>9
  <2>2. booked' \in [BankLine -> Nat]
    <3>1. booked' = booked \/ booked' = [booked EXCEPT ![seb[at]] = @ + 1]
      BY <2>1 DEF PostRow
    <3> QED
      BY <3>1
  <2>3. at' = at + 1 /\ UNCHANGED <<seb, rows, godkann, own, pc>>
    BY <2>1 DEF PostRow, NextRow
  <2> QED
    BY <2>2, <2>3
<1>10. CASE EndPost
  BY <1>10 DEF EndPost, Over
<1>11. CASE Crash
  BY <1>11 DEF Crash, Over
<1>12. CASE UNCHANGED vars
  BY <1>12 DEF vars
<1> QED
  BY <1>1, <1>2, <1>3, <1>4, <1>5, <1>6, <1>7, <1>8, <1>9, <1>10, <1>11, <1>12 DEF Next

-----------------------------------------------------------------------------
(* Once                                                                     *)

\* How often a line stands among the first n.
First(lines, n, line) == {i \in 1..n : lines[i] = line}

\* During a run, a line whose marker was not found has been booked by this run
\* alone, once for each row of it that is behind.
PostedInv ==
  /\ \A line \in BankLine : booked[line] <= Cardinality(First(seb, Len(seb), line))
  /\ pc = "row" =>
       \A i \in 1..rows : seb[i] \notin marked
         => booked[seb[i]] <= Cardinality(First(seb, at - 1, seb[i]))

LEMMA FirstIsFinite ==
  ASSUME NEW lines, NEW n \in Int, NEW line
  PROVE  IsFiniteSet(First(lines, n, line)) /\ Cardinality(First(lines, n, line)) \in Nat
<1>1. IsFiniteSet(1..n) /\ First(lines, n, line) \subseteq 1..n
  BY FS_Interval DEF First
<1> QED
  BY <1>1, FS_Subset, FS_CardinalityType

\* A longer stretch of a statement has no fewer of a line.
LEMMA FirstGrows ==
  ASSUME NEW lines, NEW more, NEW n \in Nat, NEW m \in Nat, n <= m, NEW line,
         \A i \in 1..n : more[i] = lines[i]
  PROVE  Cardinality(First(lines, n, line)) <= Cardinality(First(more, m, line))
<1>1. First(lines, n, line) \subseteq First(more, m, line)
  BY DEF First
<1>2. IsFiniteSet(First(more, m, line))
  BY FirstIsFinite
<1> QED
  BY <1>1, <1>2, FS_Subset

\* And one more if it ends with it.
LEMMA FirstCounts ==
  ASSUME NEW lines, NEW n \in Nat, NEW line, lines[n + 1] = line
  PROVE  Cardinality(First(lines, n + 1, line)) = Cardinality(First(lines, n, line)) + 1
<1>1. First(lines, n + 1, line) = First(lines, n, line) \cup {n + 1}
  BY DEF First
<1>2. n + 1 \notin First(lines, n, line)
  BY DEF First
<1>3. IsFiniteSet(First(lines, n, line))
  BY FirstIsFinite
<1> QED
  BY <1>1, <1>2, <1>3, FS_AddElement

\* A step outside the run, and of the run a step that books nothing.
LEMMA PostedKept ==
  ASSUME Types, PostedInv, UNCHANGED <<seb, booked>>,
         \/ pc' = "idle"
         \/ pc = "row" /\ at' = at + 1 /\ UNCHANGED <<rows, marked>>
  PROVE  PostedInv'
<1>1. \A line \in BankLine : booked'[line] <= Cardinality(First(seb', Len(seb'), line))
  BY DEF PostedInv
<1>2. CASE pc' = "idle"
  BY <1>1, <1>2 DEF PostedInv
<1>3. CASE pc = "row" /\ at' = at + 1 /\ UNCHANGED <<rows, marked>>
  <2>1. ASSUME NEW i \in 1..rows, seb[i] \notin marked
        PROVE  booked[seb[i]] <= Cardinality(First(seb, at, seb[i]))
    <3>1. booked[seb[i]] <= Cardinality(First(seb, at - 1, seb[i]))
      BY <1>3, <2>1 DEF PostedInv
    <3>2. at - 1 \in Nat /\ at \in Nat /\ at - 1 <= at
      BY <1>3 DEF Types
    <3>3. Cardinality(First(seb, at - 1, seb[i])) <= Cardinality(First(seb, at, seb[i]))
      BY <3>2, FirstGrows
    <3>4. /\ Cardinality(First(seb, at - 1, seb[i])) \in Nat
          /\ Cardinality(First(seb, at, seb[i])) \in Nat
      BY <3>2, FirstIsFinite
    <3>5. booked[seb[i]] \in Nat
      BY <2>1 DEF Types
    <3> QED
      BY <3>1, <3>3, <3>4, <3>5
  <2>2. at' - 1 = at
    BY <1>3 DEF Types
  <2> QED
    BY <1>1, <1>3, <2>1, <2>2 DEF PostedInv
<1> QED
  BY <1>2, <1>3

\* The row a run is at, booked.
LEMMA PostedOnce ==
  ASSUME Types, PostedInv, PostRow(TRUE, TRUE) \/ PostRow(TRUE, FALSE)
  PROVE  PostedInv'
<1> DEFINE line == seb[at]
<1>1. /\ booked' = [booked EXCEPT ![line] = @ + 1]
      /\ line \notin marked /\ at' = at + 1 /\ at <= rows /\ pc = "row"
      /\ UNCHANGED <<seb, rows, marked>>
  BY DEF PostRow, NextRow, Skipped, inputVars, sheetVars
<1>2. at \in 1..rows /\ at - 1 \in Nat /\ line \in BankLine /\ rows \in Nat /\ Len(seb) \in Nat
      /\ at <= Len(seb)
  BY <1>1 DEF Types
<1>3. booked[line] <= Cardinality(First(seb, at - 1, line))
  BY <1>1, <1>2 DEF PostedInv
<1>4. Cardinality(First(seb, at, line)) = Cardinality(First(seb, at - 1, line)) + 1
  <2>1. (at - 1) + 1 = at
    BY <1>2
  <2> QED
    BY <1>2, <2>1, FirstCounts
<1>5. Cardinality(First(seb, at, line)) <= Cardinality(First(seb, Len(seb), line))
  BY <1>2, FirstGrows
<1>6. /\ Cardinality(First(seb, at - 1, line)) \in Nat
      /\ Cardinality(First(seb, at, line)) \in Nat
      /\ Cardinality(First(seb, Len(seb), line)) \in Nat
  BY <1>2, FirstIsFinite
<1>7. booked[line] \in Nat /\ booked'[line] = booked[line] + 1
  BY <1>1, <1>2 DEF Types
<1>8. booked'[line] <= Cardinality(First(seb, at, line))
  BY <1>3, <1>4, <1>6, <1>7
<1>9. ASSUME NEW other \in BankLine
      PROVE  booked'[other] <= Cardinality(First(seb, Len(seb), other))
  <2>1. CASE other = line
    BY <1>5, <1>6, <1>7, <1>8, <2>1
  <2>2. CASE other # line
    <3>1. booked'[other] = booked[other]
      BY <1>1, <2>2 DEF Types
    <3> QED
      BY <3>1 DEF PostedInv
  <2> QED
    BY <2>1, <2>2
<1>10. ASSUME NEW i \in 1..rows, seb[i] \notin marked
       PROVE  booked'[seb[i]] <= Cardinality(First(seb, at, seb[i]))
  <2>1. CASE seb[i] = line
    BY <1>8, <2>1
  <2>2. CASE seb[i] # line
    <3>1. booked'[seb[i]] = booked[seb[i]] /\ booked[seb[i]] \in Nat
      BY <1>1, <1>2, <2>2 DEF Types
    <3>2. booked[seb[i]] <= Cardinality(First(seb, at - 1, seb[i]))
      BY <1>1, <1>10 DEF PostedInv
    <3>3. Cardinality(First(seb, at - 1, seb[i])) <= Cardinality(First(seb, at, seb[i]))
      BY <1>2, FirstGrows
    <3>4. /\ Cardinality(First(seb, at - 1, seb[i])) \in Nat
          /\ Cardinality(First(seb, at, seb[i])) \in Nat
      BY <1>2, FirstIsFinite
    <3> QED
      BY <3>1, <3>2, <3>3, <3>4
  <2> QED
    BY <2>1, <2>2
<1>11. at' - 1 = at
  BY <1>1, <1>2
<1> HIDE DEF line
<1> QED
  BY <1>1, <1>9, <1>10, <1>11 DEF PostedInv

\* A run begins: what bears no marker in the year has not been booked.
LEMMA PostedStart ==
  ASSUME Types, PostedInv, NEW year \in FiscalYears, NEW committing \in BOOLEAN,
         StartPost(year, committing)
  PROVE  PostedInv'
<1>1. /\ marked' = Markers(year) /\ YearCovers(year) /\ at' = 1
      /\ UNCHANGED <<seb, rows, booked>>
  BY DEF StartPost, inputVars, sheetVars, bookVars
<1>2. ASSUME NEW i \in 1..rows, seb[i] \notin Markers(year)
      PROVE  booked[seb[i]] <= Cardinality(First(seb, 0, seb[i]))
  <2>1. seb[i].year = year /\ seb[i] \in BankLine
    BY <1>1 DEF YearCovers, Types
  <2>2. booked[seb[i]] \in Nat /\ ~(booked[seb[i]] > 0)
    BY <1>2, <2>1 DEF Markers, Types
  <2>3. Cardinality(First(seb, 0, seb[i])) \in Nat
    BY FirstIsFinite
  <2> QED
    BY <2>2, <2>3
<1>3. at' - 1 = 0
  BY <1>1
<1> QED
  BY <1>1, <1>2, <1>3 DEF PostedInv

LEMMA PostedNext ==
  ASSUME Types, PostedInv, [Next]_vars
  PROVE  PostedInv'
<1> USE DEF sheetVars, bookVars, runVars, inputVars, Between
<1>1. CASE \E line \in BankLine : AppendLine(line)
  <2>1. PICK line \in BankLine : AppendLine(line)
    BY <1>1
  <2>2. pc' = "idle" /\ booked' = booked
    BY <2>1 DEF AppendLine
  <2>3. ASSUME NEW other \in BankLine
        PROVE  booked[other] <= Cardinality(First(seb', Len(seb'), other))
    <3>1. Len(seb) \in Nat /\ Len(seb') \in Nat /\ Len(seb) <= Len(seb')
      BY <2>1, AppendKeeps DEF Types
    <3>2. Cardinality(First(seb, Len(seb), other)) <= Cardinality(First(seb', Len(seb'), other))
      BY <2>1, <3>1, AppendKeeps, FirstGrows
    <3>3. /\ Cardinality(First(seb, Len(seb), other)) \in Nat
          /\ Cardinality(First(seb', Len(seb'), other)) \in Nat
      BY <3>1, FirstIsFinite
    <3>4. booked[other] \in Nat /\ booked[other] <= Cardinality(First(seb, Len(seb), other))
      BY DEF Types, PostedInv
    <3> QED
      BY <3>2, <3>3, <3>4
  <2> QED
    BY <2>2, <2>3 DEF PostedInv
<1>2. CASE \E receipt \in Receipts : RecordReceipt(receipt)
  BY <1>2, PostedKept DEF RecordReceipt
<1>3. CASE \E i \in Row : \/ \E j \in BOOLEAN : WriteJ(i, j)
                          \/ \E a \in Accounts \cup {Blank} : WriteKonto(i, a)
                          \/ \E f \in Figures : WriteFigure(i, f)
  <2>1. UNCHANGED <<seb, booked>> /\ pc' = "idle"
    BY <1>3 DEF WriteJ, WriteKonto, WriteFigure, Edit
  <2> QED
    BY <2>1, PostedKept
<1>4. CASE Propose
  <2>1. UNCHANGED <<seb, booked>> /\ pc' = "idle"
    BY <1>4 DEF Propose
  <2> QED
    BY <2>1, PostedKept
<1>5. CASE \E year \in FiscalYears, committing \in BOOLEAN : StartPost(year, committing)
  BY <1>5, PostedStart
<1>6. CASE PassRow
  BY <1>6, PostedKept DEF PassRow, NextRow
<1>7. CASE \E accepted, answered \in BOOLEAN : PostRow(accepted, answered)
  <2>1. PICK accepted, answered \in BOOLEAN : PostRow(accepted, answered)
    BY <1>7
  <2>2. CASE accepted
    BY <2>1, <2>2, PostedOnce
  <2>3. CASE ~accepted
    BY <2>1, <2>3, PostedKept DEF PostRow, NextRow
  <2> QED
    BY <2>2, <2>3
<1>8. CASE EndPost \/ Crash
  BY <1>8, PostedKept DEF EndPost, Crash, Over
<1>9. CASE UNCHANGED vars
  <2>1. UNCHANGED <<seb, booked, pc, rows, marked, at>>
    BY <1>9 DEF vars
  <2> QED
    BY <2>1 DEF PostedInv
<1> QED
  BY <1>1, <1>2, <1>3, <1>4, <1>5, <1>6, <1>7, <1>8, <1>9 DEF Next

\* However often runs are repeated, after lost answers and crashes, no line is
\* booked more often than the statement has it: run_post's markers and its
\* check that the rows lie in the year whose vouchers it scans.
THEOREM NothingIsPostedTwiceHolds == Spec => []NothingIsPostedTwice
<1>1. Init => Types /\ PostedInv
  <2> SUFFICES ASSUME Init PROVE Types /\ PostedInv
    OBVIOUS
  <2>1. Types
    BY TypesInit
  <2>2. ASSUME NEW line \in BankLine
        PROVE  booked[line] <= Cardinality(First(seb, Len(seb), line))
    <3>1. Cardinality(First(seb, Len(seb), line)) \in Nat
      BY <2>1, FirstIsFinite DEF Types
    <3>2. booked[line] = 0
      BY DEF Init
    <3> QED
      BY <3>1, <3>2
  <2> QED
    BY <2>1, <2>2 DEF PostedInv, Init
<1>2. Types /\ PostedInv /\ [Next]_vars => (Types /\ PostedInv)'
  BY TypesNext, PostedNext
<1>3. Types /\ PostedInv => NothingIsPostedTwice
  <2> SUFFICES ASSUME Types, PostedInv PROVE NothingIsPostedTwice
    OBVIOUS
  <2>1. \A line \in BankLine : First(seb, Len(seb), line) = {i \in DOMAIN seb : seb[i] = line}
    BY DEF Types, First
  <2> QED
    BY <2>1 DEF PostedInv, NothingIsPostedTwice, Occurrences
<1> QED
  BY <1>1, <1>2, <1>3, PTL DEF Spec

-----------------------------------------------------------------------------
(* Approval                                                                 *)

\* A J on the sheet was written by the owner on that row, or has been copied from
\* that of another row of the same line: whichever row a J is copied from, it is
\* the owner's own or it came from a row with the same line in its turn.
ConsentInv ==
  /\ \A i \in Row : own[i] => i \in signed
  /\ \A i \in signed : i \in 1..Len(seb)
  /\ \A i \in Row : godkann[i] => i \in 1..Len(seb)
  /\ \A i \in Row : godkann[i] /\ ~own[i] => SharedJ(i)

\* Another line at the end of the statement, or another J, leaves a shared J shared.
LEMMA SharedJIsKept ==
  ASSUME Types, NEW i \in 1..Len(seb), SharedJ(i), signed \subseteq signed',
         Len(seb') \in Nat, Len(seb) <= Len(seb'), seb' \in Seq(BankLine),
         \A k \in 1..Len(seb) : seb'[k] = seb[k]
  PROVE  SharedJ(i)'
<1>1. DOMAIN seb = 1..Len(seb) /\ DOMAIN seb' = 1..Len(seb') /\ Len(seb) \in Nat
  BY DEF Types
<1>2. PICK j, k \in DOMAIN seb : j # k /\ seb[j] = seb[i] /\ seb[k] = seb[i]
  BY DEF SharedJ
<1>3. PICK l \in signed : l \in DOMAIN seb /\ seb[l] = seb[i]
  BY DEF SharedJ
<1>4. seb'[i] = seb[i] /\ seb'[j] = seb[j] /\ seb'[k] = seb[k] /\ seb'[l] = seb[l]
  BY <1>1, <1>2, <1>3
<1>5. j \in DOMAIN seb' /\ k \in DOMAIN seb' /\ l \in DOMAIN seb' /\ l \in signed'
  BY <1>1, <1>2, <1>3
<1> QED
  BY <1>2, <1>3, <1>4, <1>5 DEF SharedJ

LEMMA ConsentNext ==
  ASSUME Types, ConsentInv, [Next]_vars
  PROVE  ConsentInv'
<1> USE DEF sheetVars, bookVars, runVars, inputVars
<1>0. Row' = Row /\ seb \in Seq(BankLine) /\ Len(seb) \in Nat
  BY DEF Row, Types
<1>1. CASE \E line \in BankLine : AppendLine(line)
  <2>1. PICK line \in BankLine : AppendLine(line)
    BY <1>1
  <2>2. /\ \A i \in 1..Len(seb) : seb'[i] = seb[i]
        /\ Len(seb') = Len(seb) + 1 /\ seb' \in Seq(BankLine)
    BY <2>1, AppendKeeps
  <2>3. UNCHANGED <<godkann, own, signed>>
    BY <2>1 DEF AppendLine
  <2>4. ASSUME NEW i \in Row, godkann[i], ~own[i]
        PROVE  SharedJ(i)'
    <3>1. i \in 1..Len(seb) /\ SharedJ(i)
      BY <2>4 DEF ConsentInv
    <3>2. signed \subseteq signed' /\ Len(seb') \in Nat /\ Len(seb) <= Len(seb')
      BY <1>0, <2>2, <2>3
    <3> QED
      BY <2>2, <3>1, <3>2, SharedJIsKept
  <2>5. \A i \in 1..Len(seb) : i \in 1..Len(seb')
    BY <1>0, <2>2
  <2> QED
    BY <1>0, <2>3, <2>4, <2>5 DEF ConsentInv
<1>2. CASE \E i \in Row, j \in BOOLEAN : WriteJ(i, j)
  <2>1. PICK i \in Row, j \in BOOLEAN : WriteJ(i, j)
    BY <1>2
  <2>2. /\ godkann' = [godkann EXCEPT ![i] = j] /\ own' = [own EXCEPT ![i] = j]
        /\ signed' = (IF j THEN signed \cup {i} ELSE signed)
        /\ seb' = seb /\ i <= rows
    BY <2>1 DEF WriteJ, Edit
  <2>3. i \in 1..Len(seb)
    BY <2>2 DEF Types, Row
  <2>4. signed \subseteq signed' /\ \A k \in signed' : k \in signed \/ (k = i /\ j)
    BY <2>2
  <2>5. ASSUME NEW k \in Row
        PROVE  IF k = i THEN godkann'[k] = j /\ own'[k] = j
                        ELSE godkann'[k] = godkann[k] /\ own'[k] = own[k]
    BY <2>2 DEF Types
  <2>6. ASSUME NEW k \in Row, own'[k] PROVE k \in signed'
    <3>1. CASE k = i
      BY <2>2, <2>5, <2>6, <3>1
    <3>2. CASE k # i
      BY <2>4, <2>5, <2>6, <3>2 DEF ConsentInv
    <3> QED
      BY <3>1, <3>2
  <2>7. \A k \in signed' : k \in 1..Len(seb')
    BY <2>2, <2>3, <2>4 DEF ConsentInv
  <2>8. \A k \in Row : godkann'[k] => k \in 1..Len(seb')
    BY <2>2, <2>3, <2>5 DEF ConsentInv
  <2>9. ASSUME NEW k \in Row, godkann'[k], ~own'[k] PROVE SharedJ(k)'
    <3>1. godkann[k] /\ ~own[k]
      BY <2>5, <2>9
    <3>2. k \in 1..Len(seb) /\ SharedJ(k)
      BY <3>1 DEF ConsentInv
    <3>3. /\ Len(seb') \in Nat /\ Len(seb) <= Len(seb') /\ seb' \in Seq(BankLine)
          /\ \A l \in 1..Len(seb) : seb'[l] = seb[l]
      BY <1>0, <2>2
    <3> QED
      BY <2>4, <3>2, <3>3, SharedJIsKept
  <2> QED
    BY <1>0, <2>6, <2>7, <2>8, <2>9 DEF ConsentInv
<1>3. CASE Propose
  <2>1. /\ godkann' = [i \in Row |-> i \in DOMAIN seb /\ \E e \in Prev(seb[i]) : godkann[e]]
        /\ UNCHANGED <<seb, own, signed>>
    BY <1>3 DEF Propose
  <2>2. ASSUME NEW k \in Row, godkann'[k]
        PROVE  k \in 1..Len(seb) /\ (~own[k] => SharedJ(k))
    <3>1. k \in DOMAIN seb /\ \E e \in Prev(seb[k]) : godkann[e]
      BY <2>1, <2>2
    <3>2. PICK e \in Prev(seb[k]) : godkann[e]
      BY <3>1
    <3>3. e \in 1..rows /\ seb[e] = seb[k]
      BY <3>2 DEF Prev, SameRadId
    <3>4. e \in 1..Len(seb) /\ k \in 1..Len(seb) /\ e \in Row /\ DOMAIN seb = 1..Len(seb)
      BY <3>1, <3>3 DEF Types, Row
    <3>5. ASSUME e # k PROVE SharedJ(k)
      <4>1. \E i, j \in DOMAIN seb : i # j /\ seb[i] = seb[k] /\ seb[j] = seb[k]
        BY <3>3, <3>4, <3>5
      <4>2. \E j \in signed : j \in DOMAIN seb /\ seb[j] = seb[k]
        <5>1. CASE own[e]
          BY <3>3, <3>4, <5>1 DEF ConsentInv
        <5>2. CASE ~own[e]
          <6>1. SharedJ(e)
            BY <3>2, <3>4, <5>2 DEF ConsentInv
          <6> QED
            BY <3>3, <6>1 DEF SharedJ
        <5> QED
          BY <5>1, <5>2
      <4> QED
        BY <4>1, <4>2 DEF SharedJ
    <3> QED
      BY <3>2, <3>4, <3>5 DEF ConsentInv
  <2>3. \A k : SharedJ(k)' <=> SharedJ(k)
    BY <2>1 DEF SharedJ
  <2> QED
    BY <1>0, <2>1, <2>2, <2>3 DEF ConsentInv
<1>4. CASE \/ \E receipt \in Receipts : RecordReceipt(receipt)
           \/ \E i \in Row, a \in Accounts \cup {Blank} : WriteKonto(i, a)
           \/ \E i \in Row, f \in Figures : WriteFigure(i, f)
           \/ \E year \in FiscalYears, committing \in BOOLEAN : StartPost(year, committing)
           \/ PassRow \/ EndPost \/ Crash
           \/ \E accepted, answered \in BOOLEAN : PostRow(accepted, answered)
           \/ UNCHANGED vars
  <2>1. UNCHANGED <<seb, godkann, own, signed>>
    BY <1>4 DEF RecordReceipt, WriteKonto, WriteFigure, Edit, StartPost, PassRow, EndPost,
                Crash, PostRow, vars
  <2> QED
    BY <1>0, <2>1 DEF ConsentInv, SharedJ
<1> QED
  BY <1>1, <1>2, <1>3, <1>4 DEF Next

\* A voucher is booked by a committed run, for a row that bears the owner's own J
\* or, when its line stands in the statement more than once, a J the owner wrote
\* on a row of an identical line (run_post's approval check and merge_forslag's
\* key).
THEOREM BookedByConsentHolds == Spec => BookedByConsent
<1>1. Init => Types /\ ConsentInv
  <2> SUFFICES ASSUME Init PROVE Types /\ ConsentInv
    OBVIOUS
  <2>1. Types
    BY TypesInit
  <2>2. \A i \in Row : ~godkann[i] /\ ~own[i]
    BY DEF Init
  <2>3. signed = {}
    BY DEF Init
  <2> QED
    BY <2>1, <2>2, <2>3 DEF ConsentInv
<1>2. Types /\ ConsentInv /\ [Next]_vars => (Types /\ ConsentInv)'
  BY TypesNext, ConsentNext
<1>3. Types /\ ConsentInv /\ [Next]_vars
        => [booked' # booked => commit /\ (own[at] \/ SharedJ(at))]_vars
  <2> SUFFICES ASSUME Types, ConsentInv, [Next]_vars, booked' # booked
               PROVE  commit /\ (own[at] \/ SharedJ(at))
    OBVIOUS
  <2>1. PICK accepted, answered \in BOOLEAN : PostRow(accepted, answered)
    BY DEF Next, vars, AppendLine, RecordReceipt, WriteJ, WriteKonto, WriteFigure, Edit, Propose,
           StartPost, PassRow, EndPost, Crash, bookVars
  <2>2. godkann[at] /\ commit /\ at <= rows /\ pc = "row"
    BY <2>1 DEF PostRow, Skipped
  <2>3. at \in Row
    BY <2>2 DEF Types, Row
  <2> QED
    BY <2>2, <2>3 DEF ConsentInv
<1> QED
  BY <1>1, <1>2, <1>3, PTL DEF Spec, BookedByConsent

-----------------------------------------------------------------------------
(* Completeness                                                             *)

\* A marker is that of a voucher in the books; and while a committed run has
\* nothing to report, every row behind it that was to be booked is.
CompleteInv ==
  pc = "row" =>
    /\ \A line \in marked : line \in BankLine /\ booked[line] > 0
    /\ (commit /\ failed = {}) =>
         \A i \in 1..rows : (i < at /\ godkann[i] /\ konto[i] # Blank) => booked[seb[i]] > 0

\* No run is under way.
LEMMA CompleteIdle ==
  ASSUME pc' = "idle"
  PROVE  CompleteInv'
BY DEF CompleteInv

\* On to the next row, with nothing booked.
LEMMA CompletePass ==
  ASSUME Types, CompleteInv, PassRow
  PROVE  CompleteInv'
<1>1. /\ pc = "row" /\ at <= rows /\ at \in Nat
      /\ UNCHANGED <<pc, commit, marked, booked, rows, godkann, konto, seb>>
      /\ at' = at + 1
  BY DEF PassRow, NextRow, Types, inputVars, sheetVars, bookVars
<1>2. \A line \in marked' : line \in BankLine /\ booked'[line] > 0
  BY <1>1 DEF CompleteInv
<1>3. ASSUME commit', failed' = {}, NEW i \in 1..rows', i < at', godkann'[i], konto'[i] # Blank
      PROVE  booked'[seb'[i]] > 0
  <2>1. failed = {} /\ Skipped(at)
    BY <1>1, <1>3 DEF PassRow, NextRow
  <2>2. CASE i < at
    BY <1>1, <1>3, <2>1, <2>2 DEF CompleteInv
  <2>3. CASE i = at
    <3>1. seb[at] \in marked
      BY <1>1, <1>3, <2>1, <2>3 DEF Skipped
    <3> QED
      BY <1>1, <1>2, <2>3, <3>1
  <2> QED
    BY <1>1, <1>3, <2>2, <2>3 DEF Types
<1> QED
  BY <1>2, <1>3 DEF CompleteInv

\* A row is posted: it is in the books, or it is reported.
LEMMA CompletePost ==
  ASSUME Types, CompleteInv, NEW accepted \in BOOLEAN, NEW answered \in BOOLEAN,
         PostRow(accepted, answered)
  PROVE  CompleteInv'
<1>a. /\ pc = "row" /\ at <= rows /\ at' = at + 1
      /\ UNCHANGED <<pc, commit, marked>>
  BY DEF PostRow, NextRow
<1>b. UNCHANGED <<rows, godkann, konto, seb>>
  BY DEF PostRow, inputVars, sheetVars
<1>c. at \in 1..rows /\ rows \in Nat /\ rows <= Len(seb)
  BY <1>a DEF Types
<1>d. seb[at] \in BankLine
  BY <1>c DEF Types
<1>1. /\ pc = "row" /\ at <= rows /\ at \in Nat /\ rows \in Nat /\ rows <= Len(seb)
      /\ UNCHANGED <<pc, commit, marked, rows, godkann, konto, seb>>
      /\ at' = at + 1 /\ at \in 1..rows /\ seb[at] \in BankLine
  BY <1>a, <1>b, <1>c, <1>d
<1>e. booked' = booked \/ booked' = [booked EXCEPT ![seb[at]] = @ + 1]
  BY DEF PostRow, bookVars
<1>f. booked \in [BankLine -> Nat]
  BY DEF Types
<1>2. \A line \in BankLine : booked[line] > 0 => booked'[line] > 0
  BY <1>d, <1>e, <1>f
<1>3. \A line \in marked' : line \in BankLine /\ booked'[line] > 0
  BY <1>1, <1>2 DEF CompleteInv
<1>4. ASSUME commit', failed' = {}, NEW i \in 1..rows', i < at', godkann'[i], konto'[i] # Blank
      PROVE  booked'[seb'[i]] > 0
  <2>1. failed = {} /\ accepted /\ answered
    BY <1>4 DEF PostRow, NextRow
  <2>2. seb[i] \in BankLine
    BY <1>1, <1>4 DEF Types
  <2>3. CASE i < at
    <3>1. booked[seb[i]] > 0
      BY <1>1, <1>4, <2>1, <2>3 DEF CompleteInv
    <3> QED
      BY <1>1, <1>2, <2>2, <3>1
  <2>4. CASE i = at
    <3>1. booked' = [booked EXCEPT ![seb[at]] = @ + 1]
      BY <2>1 DEF PostRow
    <3> QED
      BY <1>1, <2>4, <3>1 DEF Types
  <2> QED
    BY <1>1, <1>4, <2>3, <2>4
<1> QED
  BY <1>3, <1>4 DEF CompleteInv

LEMMA CompleteNext ==
  ASSUME Types, CompleteInv, [Next]_vars
  PROVE  CompleteInv'
<1> USE DEF Between, runVars
<1>1. CASE \/ \E line \in BankLine : AppendLine(line)
           \/ \E receipt \in Receipts : RecordReceipt(receipt)
           \/ \E i \in Row : \/ \E j \in BOOLEAN : WriteJ(i, j)
                             \/ \E a \in Accounts \cup {Blank} : WriteKonto(i, a)
                             \/ \E f \in Figures : WriteFigure(i, f)
           \/ Propose \/ EndPost \/ Crash
  <2>1. pc' = "idle"
    BY <1>1 DEF AppendLine, RecordReceipt, WriteJ, WriteKonto, WriteFigure, Edit, Propose,
                EndPost, Crash, Over
  <2> QED
    BY <2>1, CompleteIdle
<1>2. CASE \E year \in FiscalYears, committing \in BOOLEAN : StartPost(year, committing)
  <2>1. PICK year \in FiscalYears : /\ marked' = Markers(year) /\ at' = 1 /\ booked' = booked
                                    /\ rows' = rows
    BY <1>2 DEF StartPost, bookVars, sheetVars
  <2>2. \A line \in marked' : line \in BankLine /\ booked'[line] > 0
    BY <2>1 DEF Markers
  <2>3. \A i \in 1..rows' : ~(i < at')
    BY <2>1 DEF Types
  <2> QED
    BY <2>2, <2>3 DEF CompleteInv
<1>3. CASE PassRow
  BY <1>3, CompletePass
<1>4. CASE \E accepted, answered \in BOOLEAN : PostRow(accepted, answered)
  BY <1>4, CompletePost
<1>5. CASE UNCHANGED vars
  BY <1>5 DEF vars, sheetVars, bookVars, inputVars, CompleteInv
<1> QED
  BY <1>1, <1>2, <1>3, <1>4, <1>5 DEF Next

\* A run that was to book, reached its end and reports no failure has booked
\* every approved and coded row, or found its marker (run_post).
THEOREM SuccessIsCompleteHolds == Spec => SuccessIsComplete
<1>1. Init => Types /\ CompleteInv
  BY TypesInit DEF Init, CompleteInv
<1>2. Types /\ CompleteInv /\ [Next]_vars => (Types /\ CompleteInv)'
  BY TypesNext, CompleteNext
<1>3. ASSUME Types, CompleteInv, EndPost, commit, failed = {}
      PROVE  \A i \in 1..rows : godkann[i] /\ konto[i] # Blank => booked[seb[i]] > 0
  <2>1. pc = "row" /\ at > rows /\ at \in Nat /\ rows \in Nat
    BY <1>3 DEF EndPost, Types
  <2>2. \A i \in 1..rows : i < at
    BY <2>1
  <2> QED
    BY <1>3, <2>1, <2>2 DEF CompleteInv
<1>4. Types /\ CompleteInv /\ [Next]_vars =>
        [(EndPost /\ commit /\ failed = {}) =>
           \A i \in 1..rows : godkann[i] /\ konto[i] # Blank => booked[seb[i]] > 0]_vars
  BY <1>3
<1> QED
  BY <1>1, <1>2, <1>4, PTL DEF Spec, SuccessIsComplete

-----------------------------------------------------------------------------
(* Matching                                                                 *)

\* A set of naturals that holds 0 and every successor holds them all.
LEMMA AllNaturals ==
  ASSUME NEW G, 0 \in G, \A n \in Nat : n \in G => n + 1 \in G
  PROVE  Nat \subseteq G
<1> DEFINE Less == OpToRel(<, Nat)
           Others == Nat \ G
<1>1. IsWellFoundedOn(Less, Nat)
  BY NatLessThanWellFounded
<1>2. \A x, y \in Nat : x < y => <<x, y>> \in Less
  BY DEF OpToRel
<1> HIDE DEF Less
<1> SUFFICES ASSUME Others # {} PROVE FALSE
  OBVIOUS
<1>3. PICK x \in Others : \A y \in Others : <<y, x>> \notin Less
  BY <1>1, WFMin
<1>4. x \in Nat /\ x # 0
  OBVIOUS
<1>5. x - 1 \in Nat /\ x - 1 < x /\ (x - 1) + 1 = x
  BY <1>4
<1>6. x - 1 \notin G
  BY <1>4, <1>5
<1>7. <<x - 1, x>> \in Less
  BY <1>2, <1>4, <1>5
<1> QED BY <1>3, <1>5, <1>6, <1>7

Triple == Int \X Int \X Int

\* The order of the pairs is strict and total.
LEMMA NearerOrders ==
  /\ \A p, q \in Triple : p = q \/ Nearer(p, q) \/ Nearer(q, p)
  /\ \A p, q \in Triple : ~(Nearer(p, q) /\ Nearer(q, p))
  /\ \A p, q, r \in Triple : Nearer(p, q) /\ Nearer(q, r) => Nearer(p, r)
  /\ \A p, q \in Triple : Nearer(p, q) => p[1] <= q[1]
BY DEF Triple, Nearer

\* Finitely many pairs have a last one.
LEMMA LastExists ==
  ASSUME NEW S \in SUBSET Triple, IsFiniteSet(S), S # {}
  PROVE  \E m \in S : \A p \in S : p = m \/ Nearer(p, m)
<1> DEFINE HasLast(T) == \E m \in T : \A p \in T : p = m \/ Nearer(p, m)
           G == {n \in Nat : \A T \in SUBSET Triple :
                               IsFiniteSet(T) /\ Cardinality(T) = n + 1 => HasLast(T)}
<1>1. 0 \in G
  <2> SUFFICES ASSUME NEW T \in SUBSET Triple, IsFiniteSet(T), Cardinality(T) = 1
               PROVE  HasLast(T)
    OBVIOUS
  <2>1. PICK x : T = {x}
    BY FS_Singleton
  <2> QED BY <2>1
<1>2. ASSUME NEW n \in Nat, n \in G PROVE n + 1 \in G
  <2> SUFFICES ASSUME NEW T \in SUBSET Triple, IsFiniteSet(T), Cardinality(T) = n + 2
               PROVE  HasLast(T)
    OBVIOUS
  <2>1. PICK x \in T : TRUE
    BY FS_EmptySet
  <2>2. IsFiniteSet(T \ {x}) /\ Cardinality(T \ {x}) = n + 1
    BY <2>1, FS_RemoveElement
  <2>3. HasLast(T \ {x})
    BY <1>2, <2>2
  <2>4. PICK m \in T \ {x} : \A p \in T \ {x} : p = m \/ Nearer(p, m)
    BY <2>3
  <2>5. x \in Triple /\ m \in Triple /\ \A p \in T : p \in Triple
    BY <2>1
  <2>6. CASE Nearer(m, x)
    <3>1. \A p \in T : p = x \/ Nearer(p, x)
      BY <2>4, <2>5, <2>6, NearerOrders
    <3> QED BY <2>1, <3>1
  <2>7. CASE Nearer(x, m)
    <3>1. \A p \in T : p = m \/ Nearer(p, m)
      BY <2>4, <2>7
    <3> QED BY <3>1
  <2> QED BY <2>4, <2>5, <2>6, <2>7, NearerOrders
<1> HIDE DEF G
<1>3. Nat \subseteq G
  BY <1>1, <1>2, AllNaturals
<1>4. Cardinality(S) - 1 \in Nat /\ (Cardinality(S) - 1) + 1 = Cardinality(S)
  <2>1. Cardinality(S) \in Nat /\ Cardinality(S) # 0
    BY FS_CardinalityType, FS_EmptySet
  <2> QED BY <2>1
<1> QED BY <1>3, <1>4 DEF G

Sorted(queue, n) == \A i, j \in 1..n : i < j => Nearer(queue[i], queue[j])

\* They can be put in order.
LEMMA OrderExists ==
  ASSUME NEW S \in SUBSET Triple, IsFiniteSet(S)
  PROVE  \E queue \in [1..Cardinality(S) -> S] : Sorted(queue, Cardinality(S))
<1> DEFINE G == {n \in Nat : \A T \in SUBSET Triple :
                               IsFiniteSet(T) /\ Cardinality(T) = n =>
                                 \E queue \in [1..n -> T] : Sorted(queue, n)}
<1>1. 0 \in G
  <2> SUFFICES ASSUME NEW T \in SUBSET Triple
               PROVE  \E queue \in [1..0 -> T] : Sorted(queue, 0)
    OBVIOUS
  <2> DEFINE none == [i \in 1..0 |-> 0]
  <2>1. none \in [1..0 -> T]
    OBVIOUS
  <2>2. Sorted(none, 0)
    <3>1. 1..0 = {}
      OBVIOUS
    <3> QED BY <3>1 DEF Sorted
  <2> HIDE DEF none
  <2> QED BY <2>1, <2>2
<1>2. ASSUME NEW n \in Nat, n \in G PROVE n + 1 \in G
  <2> SUFFICES ASSUME NEW T \in SUBSET Triple, IsFiniteSet(T), Cardinality(T) = n + 1
               PROVE  \E queue \in [1..(n + 1) -> T] : Sorted(queue, n + 1)
    OBVIOUS
  <2>1. T # {}
    BY FS_EmptySet
  <2>2. PICK m \in T : \A p \in T : p = m \/ Nearer(p, m)
    BY <2>1, LastExists
  <2>3. IsFiniteSet(T \ {m}) /\ Cardinality(T \ {m}) = n
    <3>1. IsFiniteSet(T \ {m}) /\ Cardinality(T \ {m}) = Cardinality(T) - 1
      BY <2>2, FS_RemoveElement
    <3> QED BY <3>1
  <2>4. PICK queue \in [1..n -> T \ {m}] : Sorted(queue, n)
    BY <1>2, <2>3
  <2> DEFINE longer == [i \in 1..(n + 1) |-> IF i = n + 1 THEN m ELSE queue[i]]
  <2>5. longer \in [1..(n + 1) -> T]
    BY <2>2, <2>4
  <2>6. Sorted(longer, n + 1)
    <3> SUFFICES ASSUME NEW i \in 1..(n + 1), NEW j \in 1..(n + 1), i < j
                 PROVE  Nearer(longer[i], longer[j])
      BY DEF Sorted
    <3>1. i \in 1..n /\ longer[i] = queue[i] /\ queue[i] \in T \ {m}
      BY <2>4
    <3>2. CASE j = n + 1
      BY <2>2, <3>1, <3>2
    <3>3. CASE j # n + 1
      BY <2>4, <3>1, <3>3 DEF Sorted
    <3> QED BY <3>2, <3>3
  <2> QED BY <2>5, <2>6
<1> HIDE DEF G
<1>3. Nat \subseteq G
  BY <1>1, <1>2, AllNaturals
<1>4. Cardinality(S) \in Nat
  BY FS_CardinalityType
<1> QED BY <1>3, <1>4 DEF G

\* The queue holds every pair once, in order.
LEMMA QueueHoldsAll ==
  ASSUME NEW S \in SUBSET Triple, IsFiniteSet(S)
  PROVE  /\ Queue(S) \in [1..Cardinality(S) -> S] /\ Cardinality(S) \in Nat
         /\ Sorted(Queue(S), Cardinality(S))
         /\ \A p \in S : \E i \in 1..Cardinality(S) : Queue(S)[i] = p
<1> DEFINE n == Cardinality(S)
           queue == Queue(S)
<1>1. n \in Nat
  BY FS_CardinalityType
<1>2. queue \in [1..n -> S] /\ Sorted(queue, n)
  <2>1. \A q \in [1..n -> S] :
          Sorted(q, n) <=> \A i, j \in DOMAIN q : i < j => Nearer(q[i], q[j])
    BY DEF Sorted
  <2>2. PICK q \in [1..n -> S] : \A i, j \in DOMAIN q : i < j => Nearer(q[i], q[j])
    BY <2>1, OrderExists
  <2> QED BY <2>1, <2>2 DEF Queue
<1> HIDE DEF queue, n
<1>3. queue \in Injection(1..n, S)
  <2>1. ASSUME NEW i \in 1..n, NEW j \in 1..n, queue[i] = queue[j] PROVE i = j
    <3>1. queue[i] \in Triple /\ queue[j] \in Triple
      BY <1>2
    <3> QED BY <1>1, <1>2, <2>1, <3>1, NearerOrders DEF Sorted
  <2> QED BY <1>2, <2>1 DEF Injection, IsInjective
<1>4. Cardinality(1..n) = n
  BY <1>1, FS_Interval
<1>5. queue \in Surjection(1..n, S)
  BY <1>3, <1>4, FS_Injection DEF n
<1> QED BY <1>1, <1>2, <1>5 DEF Surjection, queue, n

\* What is taken of none, and of one more.
LEMMA TakenUnfolds ==
  ASSUME NEW S, NEW queue \in Seq(S)
  PROVE  /\ TakenOf(queue)[0] = {}
         /\ \A n \in 1..Len(queue) :
              TakenOf(queue)[n] =
                TakenOf(queue)[n - 1] \cup
                {p \in {queue[n]} : \A q \in TakenOf(queue)[n - 1] : ~Conflict(p, q)}
<1> DEFINE More(T, n) == T \cup {p \in {queue[n]} : \A q \in T : ~Conflict(p, q)}
           Is(f, k) == f = [n \in 0..k |-> IF n = 0 THEN {} ELSE More(f[n - 1], n)]
           G == {k \in Nat : \E f : Is(f, k)}
<1> HIDE DEF More
<1>1. 0 \in G
  <2> DEFINE f == [n \in 0..0 |-> {}]
  <2>1. Is(f, 0)
    OBVIOUS
  <2> HIDE DEF f, Is
  <2> QED BY <2>1
<1>2. ASSUME NEW k \in Nat, k \in G PROVE k + 1 \in G
  <2>1. PICK f : Is(f, k)
    BY <1>2
  <2> DEFINE g == [n \in 0..(k + 1) |-> IF n = k + 1 THEN More(f[k], n) ELSE f[n]]
             h == [n \in 0..(k + 1) |-> IF n = 0 THEN {} ELSE More(g[n - 1], n)]
  <2>2. ASSUME NEW n \in 0..(k + 1) PROVE g[n] = h[n]
    <3>1. CASE n = 0
      BY <2>1, <3>1
    <3>2. CASE n = k + 1
      <4>1. g[n - 1] = f[k] /\ n # 0
        BY <3>2
      <4> QED BY <3>2, <4>1
    <3>3. CASE n # 0 /\ n # k + 1
      <4>1. n \in 0..k /\ n - 1 \in 0..k /\ n - 1 \in 0..(k + 1) /\ n - 1 # k + 1
        BY <3>3
      <4>2. g[n - 1] = f[n - 1] /\ g[n] = f[n]
        BY <3>3, <4>1
      <4>3. f[n] = More(f[n - 1], n)
        BY <2>1, <3>3, <4>1
      <4> QED BY <3>3, <4>2, <4>3
    <3> QED BY <3>1, <3>2, <3>3
  <2>3. g = h
    BY <2>2
  <2>4. Is(g, k + 1)
    BY <2>3
  <2> HIDE DEF g, h, Is
  <2> QED BY <2>4
<1>3. Nat \subseteq G
  <2> HIDE DEF G
  <2> QED BY <1>1, <1>2, AllNaturals
<1>4. Len(queue) \in Nat
  BY LenProperties
<1>5. \E f : Is(f, Len(queue))
  BY <1>3, <1>4
<1>6. Is(TakenOf(queue), Len(queue))
  <2>1. TakenOf(queue) = CHOOSE f : Is(f, Len(queue))
    BY DEF TakenOf, More
  <2> HIDE DEF Is
  <2> QED BY <1>5, <2>1
<1>7. 0 \in 0..Len(queue) /\ \A n \in 1..Len(queue) : n \in 0..Len(queue) /\ n # 0
  BY <1>4
<1> QED BY <1>6, <1>7 DEF More

\* What the greedy walk over a queue in order comes to: pairs of the queue that do
\* not conflict, and for each pair left an earlier one that took its place.
LEMMA TakenIsStable ==
  ASSUME NEW S \in SUBSET Triple, NEW queue \in Seq(S), Sorted(queue, Len(queue))
  PROVE  LET taken == TakenOf(queue)[Len(queue)] IN
         /\ \A p \in taken : \E i \in 1..Len(queue) : p = queue[i]
         /\ \A p, q \in taken : Conflict(p, q) => p = q
         /\ \A i \in 1..Len(queue) :
              \/ queue[i] \in taken
              \/ \E q \in taken : Conflict(queue[i], q) /\ Nearer(q, queue[i])
<1> DEFINE T(n) == TakenOf(queue)[n]
           New(n) == {p \in {queue[n]} : \A q \in T(n - 1) : ~Conflict(p, q)}
           Good(n) ==
             /\ \A p \in T(n) : \E i \in 1..n : p = queue[i]
             /\ \A p, q \in T(n) : Conflict(p, q) => p = q
             /\ \A i \in 1..n :
                  \/ queue[i] \in T(n)
                  \/ \E q \in T(n) : Conflict(queue[i], q) /\ Nearer(q, queue[i])
           G == {n \in Nat : n <= Len(queue) => Good(n)}
<1>1. Len(queue) \in Nat
  BY LenProperties
<1>2. T(0) = {} /\ \A n \in 1..Len(queue) : T(n) = T(n - 1) \cup New(n)
  BY TakenUnfolds
<1>3. \A p, q : Conflict(p, q) <=> Conflict(q, p)
  BY DEF Conflict
<1> HIDE DEF T
<1>4. 0 \in G
  BY <1>2
<1>5. ASSUME NEW n \in Nat, n \in G PROVE n + 1 \in G
  <2> SUFFICES ASSUME n + 1 <= Len(queue) PROVE Good(n + 1)
    OBVIOUS
  <2>1. Good(n)
    BY <1>1, <1>5
  <2>2. n + 1 \in 1..Len(queue) /\ (n + 1) - 1 = n /\ n + 1 \in 1..(n + 1)
    BY <1>1
  <2>3. T(n + 1) = T(n) \cup New(n + 1)
    BY <1>2, <2>2
  <2>4. \A p : p \in New(n + 1) <=> p = queue[n + 1] /\ \A q \in T(n) : ~Conflict(p, q)
    BY <2>2
  <2> HIDE DEF New
  <2>5. \A p \in T(n + 1) : \E i \in 1..(n + 1) : p = queue[i]
    <3> SUFFICES ASSUME NEW p \in T(n + 1) PROVE \E i \in 1..(n + 1) : p = queue[i]
      OBVIOUS
    <3>1. CASE p \in T(n)
      <4>1. PICK i \in 1..n : p = queue[i]
        BY <2>1, <3>1
      <4>2. i \in 1..(n + 1)
        OBVIOUS
      <4> QED BY <4>1, <4>2
    <3>2. CASE p \in New(n + 1)
      BY <2>2, <2>4, <3>2
    <3> QED BY <2>3, <3>1, <3>2
  <2>6. ASSUME NEW p \in T(n + 1), NEW q \in T(n + 1), Conflict(p, q) PROVE p = q
    BY <1>3, <2>1, <2>3, <2>4, <2>6
  <2>7. ASSUME NEW i \in 1..(n + 1)
        PROVE  \/ queue[i] \in T(n + 1)
               \/ \E q \in T(n + 1) : Conflict(queue[i], q) /\ Nearer(q, queue[i])
    <3>1. CASE i # n + 1
      <4>1. i \in 1..n
        BY <3>1
      <4> QED BY <2>1, <2>3, <4>1
    <3>2. CASE i = n + 1 /\ queue[i] \notin New(n + 1)
      <4>1. PICK q \in T(n) : Conflict(queue[i], q)
        BY <2>4, <3>2
      <4>2. PICK j \in 1..n : q = queue[j]
        BY <2>1, <4>1
      <4>3. j \in 1..Len(queue) /\ i \in 1..Len(queue) /\ j < i
        BY <1>1, <3>2
      <4>4. Nearer(q, queue[i])
        BY <4>2, <4>3 DEF Sorted
      <4> QED BY <2>3, <4>1, <4>4
    <3>3. CASE i = n + 1 /\ queue[i] \in New(n + 1)
      BY <2>3, <3>3
    <3> QED BY <3>1, <3>2, <3>3
  <2> QED BY <2>5, <2>6, <2>7
<1> HIDE DEF G
<1>6. Nat \subseteq G
  BY <1>4, <1>5, AllNaturals
<1>7. Good(Len(queue))
  BY <1>1, <1>6 DEF G
<1> QED BY <1>7 DEF T

\* The pairs of a statement and its receipts are finitely many.
LEMMA PairsAreFinite ==
  ASSUME NEW lines \in Seq(BankLine), NEW receipts \in Seq(Receipts)
  PROVE  Pairs(lines, receipts) \in SUBSET Triple /\ IsFiniteSet(Pairs(lines, receipts))
<1> DEFINE D == {q \in (DOMAIN lines) \X (DOMAIN receipts) :
                   q[2] \in CandidatesFor(lines[q[1]], receipts)}
           Pair(q) == <<Abs2(lines[q[1]].day - receipts[q[2]].day), q[1], q[2]>>
           f == [q \in D |-> Pair(q)]
<1>1. DOMAIN lines = 1..Len(lines) /\ DOMAIN receipts = 1..Len(receipts)
      /\ Len(lines) \in Nat /\ Len(receipts) \in Nat
  BY LenProperties
<1>2. Pairs(lines, receipts) = {Pair(q) : q \in D}
  BY DEF Pairs
<1>3. \A q \in D : q[1] \in DOMAIN lines /\ q[2] \in DOMAIN receipts
  OBVIOUS
<1>4. \A q \in D : Pair(q) \in Triple
  <2> SUFFICES ASSUME NEW q \in D PROVE Pair(q) \in Triple
    OBVIOUS
  <2>1. q[1] \in 1..Len(lines) /\ q[2] \in 1..Len(receipts)
    BY <1>1, <1>3
  <2>2. lines[q[1]] \in BankLine /\ receipts[q[2]] \in Receipts
    BY <2>1
  <2>3. lines[q[1]].day \in Int /\ receipts[q[2]].day \in Int
    BY <2>2, ValueAssumption
  <2>4. Abs2(lines[q[1]].day - receipts[q[2]].day) \in Int
    BY <2>3 DEF Abs2
  <2>5. q[1] \in Int /\ q[2] \in Int
    BY <1>1, <2>1
  <2> QED BY <2>4, <2>5 DEF Triple
<1>5. IsFiniteSet(D)
  <2>1. IsFiniteSet(DOMAIN lines) /\ IsFiniteSet(DOMAIN receipts)
    BY <1>1, FS_Interval
  <2>2. IsFiniteSet((DOMAIN lines) \X (DOMAIN receipts))
    BY <2>1, FS_Product
  <2> QED BY <2>2, FS_Subset
<1> HIDE DEF D, Pair
<1>6. f \in Surjection(D, Pairs(lines, receipts))
  BY <1>2 DEF Surjection
<1>7. IsFiniteSet(Pairs(lines, receipts))
  <2> HIDE DEF f
  <2> QED BY <1>5, <1>6, FS_Surjection
<1> QED BY <1>2, <1>4, <1>7

\* No line and no receipt is assigned twice, and each pair that is not assigned
\* gave way to one no further apart.
LEMMA AssignmentIsStable ==
  ASSUME NEW lines \in Seq(BankLine), NEW receipts \in Seq(Receipts)
  PROVE  LET taken == Assignment(lines, receipts) IN
         /\ taken \subseteq Pairs(lines, receipts)
         /\ \A p, q \in taken : Conflict(p, q) => p = q
         /\ \A p \in Pairs(lines, receipts) \ taken :
              \E q \in taken : Conflict(p, q) /\ q[1] <= p[1]
<1> DEFINE S == Pairs(lines, receipts)
           n == Cardinality(S)
           queue == Queue(S)
           taken == TakenOf(queue)[Len(queue)]
<1>1. S \in SUBSET Triple /\ IsFiniteSet(S)
  BY PairsAreFinite
<1> HIDE DEF S
<1>2. /\ queue \in [1..n -> S] /\ n \in Nat /\ Sorted(queue, n)
      /\ \A p \in S : \E i \in 1..n : queue[i] = p
  BY <1>1, QueueHoldsAll
<1> HIDE DEF queue, n
<1>3. queue \in Seq(S) /\ Len(queue) = n
  BY <1>2
<1>4. /\ \A p \in taken : \E i \in 1..n : p = queue[i]
      /\ \A p, q \in taken : Conflict(p, q) => p = q
      /\ \A i \in 1..n :
           \/ queue[i] \in taken
           \/ \E q \in taken : Conflict(queue[i], q) /\ Nearer(q, queue[i])
  <2>1. Sorted(queue, Len(queue)) /\ queue \in Seq(S) /\ S \in SUBSET Triple
    BY <1>1, <1>2, <1>3
  <2>2. /\ \A p \in taken : \E i \in 1..Len(queue) : p = queue[i]
        /\ \A p, q \in taken : Conflict(p, q) => p = q
        /\ \A i \in 1..Len(queue) :
             \/ queue[i] \in taken
             \/ \E q \in taken : Conflict(queue[i], q) /\ Nearer(q, queue[i])
    BY <2>1, TakenIsStable
  <2> QED BY <1>3, <2>2
<1>5. Assignment(lines, receipts) = taken
  BY DEF Assignment, S, queue
<1> HIDE DEF taken
<1>6. taken \subseteq S
  BY <1>2, <1>4
<1>7. ASSUME NEW p \in S \ taken
      PROVE  \E q \in taken : Conflict(p, q) /\ q[1] <= p[1]
  <2>1. PICK i \in 1..n : queue[i] = p
    BY <1>2
  <2>2. PICK q \in taken : Conflict(p, q) /\ Nearer(q, p)
    BY <1>4, <1>7, <2>1
  <2>3. p \in Triple /\ q \in Triple
    BY <1>1, <1>6, <1>7
  <2> QED BY <2>2, <2>3, NearerOrders
<1> QED BY <1>4, <1>5, <1>6, <1>7 DEF S

\* The receipts are those the owner recorded.
Recorded == kvitton \in Seq(Receipts)

LEMMA RecordedNext ==
  ASSUME Recorded, [Next]_vars
  PROVE  Recorded'
<1>1. CASE \E receipt \in Receipts : RecordReceipt(receipt)
  BY <1>1 DEF RecordReceipt, Recorded
<1>2. CASE ~ \E receipt \in Receipts : RecordReceipt(receipt)
  <2>1. kvitton' = kvitton
    BY <1>2 DEF Next, vars, AppendLine, WriteJ, WriteKonto, WriteFigure, Edit, Propose,
                StartPost, PassRow, PostRow, EndPost, Crash, inputVars
  <2> QED
    BY <2>1 DEF Recorded
<1> QED
  BY <1>1, <1>2

\* Two lines are never coded from one receipt, and a receipt passed over was
\* taken by, or its line given, one no further away (match_all).
THEOREM MatchingIsStableHolds == Spec => []MatchingIsStable
<1>1. Init => Types /\ Recorded
  <2>1. Init => Recorded
    BY DEF Init, Recorded
  <2> QED
    BY <2>1, TypesInit
<1>2. Types /\ Recorded /\ [Next]_vars => (Types /\ Recorded)'
  BY TypesNext, RecordedNext
<1>3. Types /\ Recorded => MatchingIsStable
  <2> SUFFICES ASSUME Types, Recorded PROVE MatchingIsStable
    OBVIOUS
  <2> DEFINE taken == Assignment(seb, kvitton)
             matches == MatchAll(seb, kvitton)
             Own(l) == {p[3] : p \in {q \in taken : q[2] = l}}
  <2>1. seb \in Seq(BankLine) /\ kvitton \in Seq(Receipts)
    BY DEF Types, Recorded
  <2>2. /\ \A p, q \in taken : Conflict(p, q) => p = q
        /\ \A p \in Pairs(seb, kvitton) \ taken :
             \E q \in taken : Conflict(p, q) /\ q[1] <= p[1]
    BY <2>1, AssignmentIsStable
  <2>3. \A l \in DOMAIN seb : matches[l].kvitto \subseteq Own(l)
    BY DEF MatchAll
  <2> HIDE DEF taken, matches
  <2>4. ASSUME NEW k \in DOMAIN seb, NEW l \in DOMAIN seb, k # l
        PROVE  matches[k].kvitto \cap matches[l].kvitto = {}
    <3> SUFFICES ASSUME NEW r \in Own(k), r \in Own(l) PROVE FALSE
      BY <2>3
    <3>1. PICK p \in taken : p[2] = k /\ p[3] = r
      OBVIOUS
    <3>2. PICK q \in taken : q[2] = l /\ q[3] = r
      OBVIOUS
    <3> QED
      BY <2>2, <2>4, <3>1, <3>2 DEF Conflict
  <2>5. \A p \in Pairs(seb, kvitton) \ taken :
          \E q \in taken : (q[2] = p[2] \/ q[3] = p[3]) /\ q[1] <= p[1]
    <3> SUFFICES ASSUME NEW p \in Pairs(seb, kvitton) \ taken
                 PROVE  \E q \in taken : (q[2] = p[2] \/ q[3] = p[3]) /\ q[1] <= p[1]
      OBVIOUS
    <3>1. PICK q \in taken : Conflict(p, q) /\ q[1] <= p[1]
      BY <2>2
    <3> QED
      BY <3>1 DEF Conflict
  <2> QED
    BY <2>4, <2>5 DEF MatchingIsStable, taken, matches
<1> QED
  BY <1>1, <1>2, <1>3, PTL DEF Spec

-----------------------------------------------------------------------------
(* Vouchers                                                                 *)

\* A total is what one comes to by adding one amount after the other.
LEMMA TotalUnfolds ==
  ASSUME NEW amounts \in Seq(Int)
  PROVE  \E sum : /\ sum[0] = 0 /\ Total(amounts) = sum[Len(amounts)]
                  /\ \A n \in 1..Len(amounts) : sum[n] = sum[n - 1] + amounts[n]
<1> DEFINE Is(f, k) == f = [n \in 0..k |-> IF n = 0 THEN 0 ELSE f[n - 1] + amounts[n]]
           G == {k \in Nat : \E f : Is(f, k)}
<1>1. 0 \in G
  <2> DEFINE f == [n \in 0..0 |-> 0]
  <2>1. Is(f, 0)
    OBVIOUS
  <2> HIDE DEF f, Is
  <2> QED BY <2>1
<1>2. ASSUME NEW k \in Nat, k \in G PROVE k + 1 \in G
  <2>1. PICK f : Is(f, k)
    BY <1>2
  <2> DEFINE g == [n \in 0..(k + 1) |-> IF n = k + 1 THEN f[k] + amounts[n] ELSE f[n]]
             h == [n \in 0..(k + 1) |-> IF n = 0 THEN 0 ELSE g[n - 1] + amounts[n]]
  <2>2. ASSUME NEW n \in 0..(k + 1) PROVE g[n] = h[n]
    <3>1. CASE n = 0
      BY <2>1, <3>1
    <3>2. CASE n = k + 1
      <4>1. g[n - 1] = f[k] /\ n # 0
        BY <3>2
      <4> QED BY <3>2, <4>1
    <3>3. CASE n # 0 /\ n # k + 1
      <4>1. n \in 0..k /\ n - 1 \in 0..k /\ n - 1 \in 0..(k + 1) /\ n - 1 # k + 1
        BY <3>3
      <4>2. g[n - 1] = f[n - 1] /\ g[n] = f[n]
        BY <3>3, <4>1
      <4>3. f[n] = f[n - 1] + amounts[n]
        BY <2>1, <3>3, <4>1
      <4> QED BY <3>3, <4>2, <4>3
    <3> QED BY <3>1, <3>2, <3>3
  <2>3. g = h
    BY <2>2
  <2>4. Is(g, k + 1)
    BY <2>3
  <2> HIDE DEF g, h, Is
  <2> QED BY <2>4
<1>3. Nat \subseteq G
  <2> HIDE DEF G
  <2> QED BY <1>1, <1>2, AllNaturals
<1>4. Len(amounts) \in Nat
  BY LenProperties
<1> DEFINE sum == CHOOSE f : Is(f, Len(amounts))
<1>5. Total(amounts) = sum[Len(amounts)]
  BY DEF Total
<1>6. Is(sum, Len(amounts))
  <2>1. \E f : Is(f, Len(amounts))
    BY <1>3, <1>4
  <2> HIDE DEF Is
  <2> QED BY <2>1
<1> HIDE DEF sum
<1>7. sum[0] = 0 /\ \A n \in 1..Len(amounts) : sum[n] = sum[n - 1] + amounts[n]
  <2>1. 0 \in 0..Len(amounts) /\ \A n \in 1..Len(amounts) : n \in 0..Len(amounts) /\ n # 0
    BY <1>4
  <2> QED BY <1>6, <2>1
<1> QED BY <1>5, <1>7

LEMMA FunctionIsSequence ==
  ASSUME NEW n \in Nat, NEW f \in [1..n -> Int]
  PROVE  f \in Seq(Int) /\ Len(f) = n
OBVIOUS

LEMMA TotalOfTwo ==
  ASSUME NEW amounts \in [1..2 -> Int]
  PROVE  Total(amounts) = amounts[1] + amounts[2]
<1>1. amounts \in Seq(Int) /\ Len(amounts) = 2
  BY FunctionIsSequence
<1>2. PICK sum : /\ sum[0] = 0 /\ Total(amounts) = sum[Len(amounts)]
                 /\ \A n \in 1..Len(amounts) : sum[n] = sum[n - 1] + amounts[n]
  BY <1>1, TotalUnfolds
<1>3. sum[1] = sum[1 - 1] + amounts[1] /\ sum[2] = sum[2 - 1] + amounts[2]
  BY <1>1, <1>2
<1>4. amounts[1] \in Int /\ amounts[2] \in Int
  OBVIOUS
<1> QED BY <1>1, <1>2, <1>3, <1>4

LEMMA TotalOfThree ==
  ASSUME NEW amounts \in [1..3 -> Int]
  PROVE  Total(amounts) = amounts[1] + amounts[2] + amounts[3]
<1>1. amounts \in Seq(Int) /\ Len(amounts) = 3
  BY FunctionIsSequence
<1>2. PICK sum : /\ sum[0] = 0 /\ Total(amounts) = sum[Len(amounts)]
                 /\ \A n \in 1..Len(amounts) : sum[n] = sum[n - 1] + amounts[n]
  BY <1>1, TotalUnfolds
<1>3. /\ sum[1] = sum[1 - 1] + amounts[1] /\ sum[2] = sum[2 - 1] + amounts[2]
      /\ sum[3] = sum[3 - 1] + amounts[3]
  BY <1>1, <1>2
<1>4. amounts[1] \in Int /\ amounts[2] \in Int /\ amounts[3] \in Int
  OBVIOUS
<1> QED BY <1>1, <1>2, <1>3, <1>4

LEMMA TwoLegs ==
  ASSUME NEW a, NEW b, NEW legs, legs = <<a, b>>,
         a.debit \in Int /\ a.credit \in Int /\ b.debit \in Int /\ b.credit \in Int
  PROVE  /\ Debits(legs) = a.debit + b.debit /\ Credits(legs) = a.credit + b.credit
         /\ OnBank(legs) =
              (IF a.account = "bank" THEN a.debit - a.credit ELSE 0) +
              (IF b.account = "bank" THEN b.debit - b.credit ELSE 0)
         /\ Elsewhere(legs) =
              (IF a.account # "bank" THEN a.credit - a.debit ELSE 0) +
              (IF b.account # "bank" THEN b.credit - b.debit ELSE 0)
<1>1. DOMAIN legs = 1..2 /\ legs[1] = a /\ legs[2] = b
  OBVIOUS
<1>2. Debits(legs) = a.debit + b.debit
  <2> DEFINE f == [i \in DOMAIN legs |-> legs[i].debit]
  <2>1. f \in [1..2 -> Int]
    BY <1>1
  <2>2. f[1] = a.debit /\ f[2] = b.debit
    BY <1>1
  <2>3. Debits(legs) = Total(f)
    BY DEF Debits
  <2> HIDE DEF f
  <2> QED BY <2>1, <2>2, <2>3, TotalOfTwo
<1>3. Credits(legs) = a.credit + b.credit
  <2> DEFINE f == [i \in DOMAIN legs |-> legs[i].credit]
  <2>1. f \in [1..2 -> Int]
    BY <1>1
  <2>2. f[1] = a.credit /\ f[2] = b.credit
    BY <1>1
  <2>3. Credits(legs) = Total(f)
    BY DEF Credits
  <2> HIDE DEF f
  <2> QED BY <2>1, <2>2, <2>3, TotalOfTwo
<1>4. OnBank(legs) = (IF a.account = "bank" THEN a.debit - a.credit ELSE 0) + (IF b.account = "bank" THEN b.debit - b.credit ELSE 0)
  <2> DEFINE f == [i \in DOMAIN legs |-> IF legs[i].account = "bank" THEN legs[i].debit - legs[i].credit ELSE 0]
  <2>1. f \in [1..2 -> Int]
    BY <1>1
  <2>2. f[1] = (IF a.account = "bank" THEN a.debit - a.credit ELSE 0) /\ f[2] = (IF b.account = "bank" THEN b.debit - b.credit ELSE 0)
    BY <1>1
  <2>3. OnBank(legs) = Total(f)
    BY DEF OnBank
  <2> HIDE DEF f
  <2> QED BY <2>1, <2>2, <2>3, TotalOfTwo
<1>5. Elsewhere(legs) = (IF a.account # "bank" THEN a.credit - a.debit ELSE 0) + (IF b.account # "bank" THEN b.credit - b.debit ELSE 0)
  <2> DEFINE f == [i \in DOMAIN legs |-> IF legs[i].account # "bank" THEN legs[i].credit - legs[i].debit ELSE 0]
  <2>1. f \in [1..2 -> Int]
    BY <1>1
  <2>2. f[1] = (IF a.account # "bank" THEN a.credit - a.debit ELSE 0) /\ f[2] = (IF b.account # "bank" THEN b.credit - b.debit ELSE 0)
    BY <1>1
  <2>3. Elsewhere(legs) = Total(f)
    BY DEF Elsewhere
  <2> HIDE DEF f
  <2> QED BY <2>1, <2>2, <2>3, TotalOfTwo
<1> QED BY <1>2, <1>3, <1>4, <1>5

LEMMA ThreeLegs ==
  ASSUME NEW a, NEW b, NEW c, NEW legs, legs = <<a, b, c>>,
         a.debit \in Int /\ a.credit \in Int /\ b.debit \in Int /\ b.credit \in Int /\ c.debit \in Int /\ c.credit \in Int
  PROVE  /\ Debits(legs) = a.debit + b.debit + c.debit /\ Credits(legs) = a.credit + b.credit + c.credit
         /\ OnBank(legs) =
              (IF a.account = "bank" THEN a.debit - a.credit ELSE 0) +
              (IF b.account = "bank" THEN b.debit - b.credit ELSE 0) +
              (IF c.account = "bank" THEN c.debit - c.credit ELSE 0)
         /\ Elsewhere(legs) =
              (IF a.account # "bank" THEN a.credit - a.debit ELSE 0) +
              (IF b.account # "bank" THEN b.credit - b.debit ELSE 0) +
              (IF c.account # "bank" THEN c.credit - c.debit ELSE 0)
<1>1. DOMAIN legs = 1..3 /\ legs[1] = a /\ legs[2] = b /\ legs[3] = c
  OBVIOUS
<1>2. Debits(legs) = a.debit + b.debit + c.debit
  <2> DEFINE f == [i \in DOMAIN legs |-> legs[i].debit]
  <2>1. f \in [1..3 -> Int]
    BY <1>1
  <2>2. f[1] = a.debit /\ f[2] = b.debit /\ f[3] = c.debit
    BY <1>1
  <2>3. Debits(legs) = Total(f)
    BY DEF Debits
  <2> HIDE DEF f
  <2> QED BY <2>1, <2>2, <2>3, TotalOfThree
<1>3. Credits(legs) = a.credit + b.credit + c.credit
  <2> DEFINE f == [i \in DOMAIN legs |-> legs[i].credit]
  <2>1. f \in [1..3 -> Int]
    BY <1>1
  <2>2. f[1] = a.credit /\ f[2] = b.credit /\ f[3] = c.credit
    BY <1>1
  <2>3. Credits(legs) = Total(f)
    BY DEF Credits
  <2> HIDE DEF f
  <2> QED BY <2>1, <2>2, <2>3, TotalOfThree
<1>4. OnBank(legs) = (IF a.account = "bank" THEN a.debit - a.credit ELSE 0) + (IF b.account = "bank" THEN b.debit - b.credit ELSE 0) + (IF c.account = "bank" THEN c.debit - c.credit ELSE 0)
  <2> DEFINE f == [i \in DOMAIN legs |-> IF legs[i].account = "bank" THEN legs[i].debit - legs[i].credit ELSE 0]
  <2>1. f \in [1..3 -> Int]
    BY <1>1
  <2>2. f[1] = (IF a.account = "bank" THEN a.debit - a.credit ELSE 0) /\ f[2] = (IF b.account = "bank" THEN b.debit - b.credit ELSE 0) /\ f[3] = (IF c.account = "bank" THEN c.debit - c.credit ELSE 0)
    BY <1>1
  <2>3. OnBank(legs) = Total(f)
    BY DEF OnBank
  <2> HIDE DEF f
  <2> QED BY <2>1, <2>2, <2>3, TotalOfThree
<1>5. Elsewhere(legs) = (IF a.account # "bank" THEN a.credit - a.debit ELSE 0) + (IF b.account # "bank" THEN b.credit - b.debit ELSE 0) + (IF c.account # "bank" THEN c.credit - c.debit ELSE 0)
  <2> DEFINE f == [i \in DOMAIN legs |-> IF legs[i].account # "bank" THEN legs[i].credit - legs[i].debit ELSE 0]
  <2>1. f \in [1..3 -> Int]
    BY <1>1
  <2>2. f[1] = (IF a.account # "bank" THEN a.credit - a.debit ELSE 0) /\ f[2] = (IF b.account # "bank" THEN b.credit - b.debit ELSE 0) /\ f[3] = (IF c.account # "bank" THEN c.credit - c.debit ELSE 0)
    BY <1>1
  <2>3. Elsewhere(legs) = Total(f)
    BY DEF Elsewhere
  <2> HIDE DEF f
  <2> QED BY <2>1, <2>2, <2>3, TotalOfThree
<1> QED BY <1>2, <1>3, <1>4, <1>5

LEMMA OfTwo ==
  ASSUME NEW S, NEW s \in Seq(S), Len(s) = 2
  PROVE  s = <<s[1], s[2]>>
OBVIOUS

LEMMA OfThree ==
  ASSUME NEW S, NEW s \in Seq(S), Len(s) = 3
  PROVE  s = <<s[1], s[2], s[3]>>
OBVIOUS

LEMMA JoinedOne ==
  ASSUME NEW S, NEW a \in S, NEW b \in S
  PROVE  <<a>> \o <<b>> = <<a, b>>
<1> DEFINE s == <<a>>
           t == <<b>>
<1>1. s \in Seq(S) /\ t \in Seq(S) /\ Len(s) = 1 /\ Len(t) = 1 /\ s[1] = a /\ t[1] = b
  OBVIOUS
<1> HIDE DEF s, t
<1>2. /\ s \o t \in Seq(S) /\ Len(s \o t) = Len(s) + Len(t)
      /\ \A i \in 1 .. Len(s) + Len(t) :
           (s \o t)[i] = IF i <= Len(s) THEN s[i] ELSE t[i - Len(s)]
  BY <1>1, ConcatProperties, Zenon
<1>3. Len(s \o t) = 2 /\ (s \o t)[1] = a /\ (s \o t)[2] = b
  BY <1>1, <1>2
<1>4. s \o t = <<(s \o t)[1], (s \o t)[2]>>
  BY <1>2, <1>3, OfTwo
<1>5. s \o t = <<a, b>>
  BY <1>3, <1>4
<1> QED BY <1>5 DEF s, t

LEMMA JoinedTwo ==
  ASSUME NEW S, NEW a \in S, NEW b \in S, NEW c \in S
  PROVE  <<a, b>> \o <<c>> = <<a, b, c>>
<1> DEFINE s == <<a, b>>
           t == <<c>>
<1>1. /\ s \in Seq(S) /\ t \in Seq(S) /\ Len(s) = 2 /\ Len(t) = 1
      /\ s[1] = a /\ s[2] = b /\ t[1] = c
  OBVIOUS
<1> HIDE DEF s, t
<1>2. /\ s \o t \in Seq(S) /\ Len(s \o t) = Len(s) + Len(t)
      /\ \A i \in 1 .. Len(s) + Len(t) :
           (s \o t)[i] = IF i <= Len(s) THEN s[i] ELSE t[i - Len(s)]
  BY <1>1, ConcatProperties, Zenon
<1>3. Len(s \o t) = 3 /\ (s \o t)[1] = a /\ (s \o t)[2] = b /\ (s \o t)[3] = c
  BY <1>1, <1>2
<1>4. s \o t = <<(s \o t)[1], (s \o t)[2], (s \o t)[3]>>
  BY <1>2, <1>3, OfThree
<1>5. s \o t = <<a, b, c>>
  BY <1>3, <1>4
<1> QED BY <1>5 DEF s, t

\* What a voucher says of its line.
Says(legs, amount) ==
  /\ \A i \in DOMAIN legs : legs[i].debit >= 0 /\ legs[i].credit >= 0
  /\ OnBank(legs) = amount
  /\ Elsewhere(legs) = amount

\* The VAT of an amount is a number, if there is one.
LEMMA VatIsInt ==
  ASSUME NEW gross \in Int, NEW r, NEW f \in SUBSET Int
  PROVE  ResolveVat(gross, r, f) \subseteq Int
<1>1. \A s \in SplitGross(gross, r) : s.vat \in Int
  <2> SUFFICES ASSUME r \in VatRates \cup {0}
               PROVE  gross - RoundQuotient(100 * gross, 100 + r) \in Int
    BY DEF SplitGross
  <2>1. r \in {0, 6, 12, 25}
    BY DEF VatRates
  <2>2. RoundQuotient(100 * gross, 100 + r) \in Int
    BY <2>1 DEF RoundQuotient
  <2> QED BY <2>2
<1>2. {s.vat : s \in SplitGross(gross, r)} \subseteq Int
  BY <1>1
<1>3. {g \in f : g > 0 \/ r = 0} \subseteq Int
  OBVIOUS
<1>4. {0} \subseteq Int
  OBVIOUS
<1> QED BY <1>2, <1>3, <1>4, Zenon DEF ResolveVat

LEMMA Joined ==
  ASSUME NEW a, NEW b, NEW c
  PROVE  /\ <<a>> \o <<b>> \o <<c>> = <<a, b, c>>
         /\ <<a>> \o <<>> \o <<c>> = <<a, c>>
         /\ <<a, b>> \o <<c>> = <<a, b, c>>
         /\ <<a, b>> \o <<>> = <<a, b>>
<1> DEFINE S == {a, b, c}
<1>1. a \in S /\ b \in S /\ c \in S /\ <<a>> \in Seq(S) /\ <<a, b>> \in Seq(S)
  OBVIOUS
<1> HIDE DEF S
<1>2. <<a>> \o <<b>> = <<a, b>> /\ <<a>> \o <<c>> = <<a, c>>
  BY <1>1, JoinedOne
<1>3. <<a, b>> \o <<c>> = <<a, b, c>>
  BY <1>1, JoinedTwo
<1>4. <<a>> \o <<>> = <<a>> /\ <<a, b>> \o <<>> = <<a, b>>
  BY <1>1, ConcatEmptySeq
<1> QED BY <1>2, <1>3, <1>4, Zenon

\* The voucher of a line says what the line does, whatever its account and VAT,
\* as long as the account is not the bank's own.
LEMMA PayloadSays ==
  ASSUME NEW line, line.amount \in Int, NEW account, account # "bank",
         NEW r, NEW f \in SUBSET Int,
         NEW legs \in ForslagToPayload(line, account, r, f)
  PROVE  Says(legs, line.amount)
<1> DEFINE gross == Abs2(line.amount)
           LegsOf(vat) ==
             IF line.amount < 0
             THEN <<Leg(account, gross - vat, 0)>>
                  \o (IF vat > 0 THEN <<Leg("input_vat", vat, 0)>> ELSE <<>>)
                  \o <<Leg("bank", 0, gross)>>
             ELSE <<Leg("bank", gross, 0), Leg(account, 0, gross - vat)>>
                  \o (IF vat > 0 THEN <<Leg("output_vat", 0, vat)>> ELSE <<>>)
<1>1. PICK v \in ResolveVat(gross, r, f) : legs = LegsOf(v) /\ AssertBalanced(LegsOf(v))
  BY DEF ForslagToPayload
<1> DEFINE Own(vat) == Leg(account, gross - vat, 0)
           Away(vat) == Leg(account, 0, gross - vat)
<1>a. v > 0 => /\ line.amount < 0 => LegsOf(v) = <<Own(v)>> \o <<Leg("input_vat", v, 0)>> \o <<Leg("bank", 0, gross)>>
               /\ ~(line.amount < 0) => LegsOf(v) = <<Leg("bank", gross, 0), Away(v)>> \o <<Leg("output_vat", 0, v)>>
  BY Zenon
<1>b. ~(v > 0) => /\ line.amount < 0 => LegsOf(v) = <<Own(v)>> \o <<>> \o <<Leg("bank", 0, gross)>>
                  /\ ~(line.amount < 0) => LegsOf(v) = <<Leg("bank", gross, 0), Away(v)>> \o <<>>
  BY Zenon
<1>2. gross \in Int
  BY DEF Abs2
<1>3. v \in Int
  BY <1>1, <1>2, VatIsInt
<1>4. \A i \in DOMAIN legs : legs[i].debit >= 0 /\ legs[i].credit >= 0
  BY <1>1 DEF AssertBalanced
<1>5. Debits(legs) = Credits(legs)
  BY <1>1 DEF AssertBalanced
<1> HIDE DEF LegsOf
<1>6. CASE line.amount < 0 /\ v > 0
  <2> DEFINE a == Leg(account, gross - v, 0)
             b == Leg("input_vat", v, 0)
             c == Leg("bank", 0, gross)
  <2>0. legs = <<a>> \o <<b>> \o <<c>>
    BY <1>1, <1>a, <1>6
  <2>2. /\ a.account = account /\ a.debit = gross - v /\ a.credit = 0
        /\ b.account = "input_vat" /\ b.debit = v /\ b.credit = 0
        /\ c.account = "bank" /\ c.debit = 0 /\ c.credit = gross
    BY DEF Leg
  <2>4. line.amount = -gross
    BY <1>6 DEF Abs2
  <2> HIDE DEF a, b, c, gross
  <2>1. legs = <<a, b, c>>
    BY <2>0, Joined
  <2>3. OnBank(legs) = -gross /\ Elsewhere(legs) = (0 - (gross - v)) + (0 - v)
    BY <1>2, <1>3, <2>1, <2>2, ThreeLegs
  <2>6. OnBank(legs) = line.amount /\ Elsewhere(legs) = line.amount
    BY <1>2, <1>3, <2>3, <2>4
  <2> QED BY <1>4, <2>6 DEF Says
<1>7. CASE line.amount < 0 /\ ~(v > 0)
  <2> DEFINE a == Leg(account, gross - v, 0)
             c == Leg("bank", 0, gross)
  <2>0. legs = <<a>> \o <<>> \o <<c>>
    BY <1>1, <1>b, <1>7
  <2>2. /\ a.account = account /\ a.debit = gross - v /\ a.credit = 0
        /\ c.account = "bank" /\ c.debit = 0 /\ c.credit = gross
    BY DEF Leg
  <2>4. line.amount = -gross
    BY <1>7 DEF Abs2
  <2> HIDE DEF a, c, gross
  <2>1. legs = <<a, c>>
    BY <2>0, Joined
  <2>3. /\ Debits(legs) = gross - v /\ Credits(legs) = gross
        /\ OnBank(legs) = -gross /\ Elsewhere(legs) = 0 - (gross - v)
    BY <1>2, <1>3, <2>1, <2>2, TwoLegs
  <2>5. v = 0
    <3>1. gross - v = gross
      BY <1>5, <2>3
    <3> QED BY <1>2, <1>3, <3>1
  <2>6. OnBank(legs) = line.amount /\ Elsewhere(legs) = line.amount
    BY <1>2, <2>3, <2>4, <2>5
  <2> QED BY <1>4, <2>6 DEF Says
<1>8. CASE ~(line.amount < 0) /\ v > 0
  <2> DEFINE a == Leg("bank", gross, 0)
             b == Leg(account, 0, gross - v)
             c == Leg("output_vat", 0, v)
  <2>0. legs = <<a, b>> \o <<c>>
    BY <1>1, <1>a, <1>8
  <2>2. /\ a.account = "bank" /\ a.debit = gross /\ a.credit = 0
        /\ b.account = account /\ b.debit = 0 /\ b.credit = gross - v
        /\ c.account = "output_vat" /\ c.debit = 0 /\ c.credit = v
    BY DEF Leg
  <2>4. line.amount = gross
    BY <1>8 DEF Abs2
  <2> HIDE DEF a, b, c, gross
  <2>1. legs = <<a, b, c>>
    BY <2>0, Joined
  <2>3. OnBank(legs) = gross /\ Elsewhere(legs) = (gross - v) + v
    BY <1>2, <1>3, <2>1, <2>2, ThreeLegs
  <2>6. OnBank(legs) = line.amount /\ Elsewhere(legs) = line.amount
    BY <1>2, <1>3, <2>3, <2>4
  <2> QED BY <1>4, <2>6 DEF Says
<1>9. CASE ~(line.amount < 0) /\ ~(v > 0)
  <2> DEFINE a == Leg("bank", gross, 0)
             b == Leg(account, 0, gross - v)
  <2>0. legs = <<a, b>> \o <<>>
    BY <1>1, <1>b, <1>9
  <2>2. /\ a.account = "bank" /\ a.debit = gross /\ a.credit = 0
        /\ b.account = account /\ b.debit = 0 /\ b.credit = gross - v
    BY DEF Leg
  <2>4. line.amount = gross
    BY <1>9 DEF Abs2
  <2> HIDE DEF a, b, gross
  <2>1. legs = <<a, b>>
    BY <2>0, Joined
  <2>3. /\ Debits(legs) = gross /\ Credits(legs) = gross - v
        /\ OnBank(legs) = gross /\ Elsewhere(legs) = gross - v
    BY <1>2, <1>3, <2>1, <2>2, TwoLegs
  <2>5. v = 0
    <3>1. gross - v = gross
      BY <1>5, <2>3
    <3> QED BY <1>2, <1>3, <3>1
  <2>6. OnBank(legs) = line.amount /\ Elsewhere(legs) = line.amount
    BY <1>2, <2>3, <2>4, <2>5
  <2> QED BY <1>4, <2>6 DEF Says
<1> QED BY <1>6, <1>7, <1>8, <1>9

\* Nobody writes the bank's own account on a row: not the owner, no receipt, no
\* keyword.
NobodyNamesTheBank ==
  /\ "bank" \notin Accounts /\ Blank # "bank"
  /\ \A receipt \in Receipts : receipt.konto # "bank"
  /\ \A line \in BankLine : KeywordKonto[line.text] # "bank"

SheetInv ==
  /\ DOMAIN konto = Row /\ DOMAIN figure = Row
  /\ \A i \in Row : konto[i] # "bank" /\ figure[i] \subseteq Int

\* The latest voucher under a line says what the line does.
BooksInv ==
  /\ DOMAIN voucher = BankLine
  /\ \A line \in BankLine : booked[line] > 0 => Says(voucher[line], line.amount)

\* The receipts a line is matched with are among those there are.
LEMMA MatchIsRecorded ==
  ASSUME NEW lines \in Seq(BankLine), NEW receipts \in Seq(Receipts), NEW l \in DOMAIN lines
  PROVE  MatchAll(lines, receipts)[l].kvitto \subseteq DOMAIN receipts
<1> DEFINE taken == Assignment(lines, receipts)
           Own == {p[3] : p \in {q \in taken : q[2] = l}}
<1>1. MatchAll(lines, receipts)[l].kvitto \subseteq Own
  BY DEF MatchAll
<1>2. taken \subseteq Pairs(lines, receipts)
  BY AssignmentIsStable
<1> HIDE DEF taken
<1>3. \A p \in Pairs(lines, receipts) : p[3] \in DOMAIN receipts
  BY DEF Pairs
<1> QED BY <1>1, <1>2, <1>3

\* What a line is proposed with is neither the bank's account nor other than a
\* number.
LEMMA CodingIsSound ==
  ASSUME NobodyNamesTheBank, NEW line \in BankLine, NEW receipts \in Seq(Receipts),
         NEW match, match.kvitto \subseteq DOMAIN receipts,
         NEW c \in CodeLine(line, match, receipts)
  PROVE  c.konto # "bank" /\ c.figure \in Int
<1> DEFINE gross == Abs2(line.amount)
           kvitto == {receipts[r] : r \in match.kvitto}
           rates == UNION {k.rate : k \in kvitto}
           r == IF rates = {} THEN 0 ELSE CHOOSE n \in rates : TRUE
           f == UNION {k.figure : k \in kvitto}
           accounts == {k.konto : k \in kvitto} \ {Blank}
           account == IF accounts # {} THEN CHOOSE a \in accounts : TRUE
                      ELSE KeywordKonto[line.text]
<1>1. kvitto \subseteq Receipts
  OBVIOUS
<1>2. gross \in Int
  BY ValueAssumption DEF Abs2
<1>3. f \subseteq Int
  BY <1>1, ValueAssumption
<1>4. account # "bank"
  BY <1>1 DEF NobodyNamesTheBank
<1>5. ResolveVat(gross, r, f) \subseteq Int
  BY <1>2, <1>3, VatIsInt
<1>6. \/ c = [konto |-> Blank, rate |-> 0, figure |-> 0]
      \/ \E v \in ResolveVat(gross, r, f) : c = [konto |-> account, rate |-> r, figure |-> v]
  BY DEF CodeLine
<1> HIDE DEF gross, r, f, account
<1> QED BY <1>4, <1>5, <1>6 DEF NobodyNamesTheBank

LEMMA SheetPropose ==
  ASSUME NobodyNamesTheBank, Types, Recorded, SheetInv, Propose
  PROVE  SheetInv'
<1> DEFINE matches == MatchAll(seb, kvitton)
           coding == [i \in DOMAIN seb |-> CodeLine(seb[i], matches[i], kvitton)]
           C(i) == CHOOSE c \in coding[i] : TRUE
<1>1. /\ \A i \in DOMAIN seb : coding[i] # {}
      /\ konto' = [i \in Row |-> IF i \in DOMAIN seb
                                 THEN Merged(konto, seb[i], Blank, C(i).konto) ELSE Blank]
      /\ figure' = [i \in Row |-> IF i \in DOMAIN seb
                                  THEN Merged(figure, seb[i], {}, {C(i).figure}) ELSE {}]
  BY DEF Propose
<1>2. ASSUME NEW i \in DOMAIN seb PROVE C(i).konto # "bank" /\ C(i).figure \in Int
  <2>1. seb \in Seq(BankLine) /\ kvitton \in Seq(Receipts) /\ seb[i] \in BankLine
    BY DEF Types, Recorded
  <2>2. matches[i].kvitto \subseteq DOMAIN kvitton
    BY <2>1, MatchIsRecorded
  <2> HIDE DEF matches
  <2>3. coding[i] = CodeLine(seb[i], matches[i], kvitton)
    OBVIOUS
  <2>4. C(i) \in CodeLine(seb[i], matches[i], kvitton)
    BY <1>1, <2>3
  <2> HIDE DEF C, coding
  <2> QED BY <2>1, <2>2, <2>4, CodingIsSound
<1> HIDE DEF C, coding
<1>3. \A i \in DOMAIN seb : Prev(seb[i]) \subseteq Row
  BY DEF Prev, Types, Row
<1>4. ASSUME NEW i \in Row PROVE konto'[i] # "bank"
  <2>1. CASE i \in DOMAIN seb
    <3> DEFINE kept == {konto[e] : e \in Prev(seb[i])} \ {Blank}
    <3>1. konto'[i] = IF kept # {} THEN CHOOSE c \in kept : TRUE ELSE C(i).konto
      BY <1>1, <2>1 DEF Merged
    <3>2. \A c \in kept : c # "bank"
      BY <1>3, <2>1 DEF SheetInv
    <3> HIDE DEF kept
    <3> QED BY <1>2, <2>1, <3>1, <3>2
  <2>2. CASE i \notin DOMAIN seb
    BY <1>1, <2>2 DEF NobodyNamesTheBank
  <2> QED BY <2>1, <2>2
<1>5. ASSUME NEW i \in Row PROVE figure'[i] \subseteq Int
  <2>1. CASE i \in DOMAIN seb
    <3> DEFINE kept == {figure[e] : e \in Prev(seb[i])} \ {{}}
    <3>1. figure'[i] = IF kept # {} THEN CHOOSE c \in kept : TRUE ELSE {C(i).figure}
      BY <1>1, <2>1 DEF Merged
    <3>2. \A c \in kept : c \subseteq Int
      BY <1>3, <2>1 DEF SheetInv
    <3>3. {C(i).figure} \subseteq Int
      BY <1>2, <2>1
    <3> HIDE DEF kept
    <3> QED BY <3>1, <3>2, <3>3
  <2>2. CASE i \notin DOMAIN seb
    BY <1>1, <2>2
  <2> QED BY <2>1, <2>2
<1>6. Row' = Row
  BY DEF Row
<1> QED BY <1>1, <1>4, <1>5, <1>6 DEF SheetInv

LEMMA SheetNext ==
  ASSUME NobodyNamesTheBank, Types, Recorded, SheetInv, [Next]_vars
  PROVE  SheetInv'
<1>1. CASE \E i \in Row, a \in Accounts \cup {Blank} : WriteKonto(i, a)
  <2>1. PICK i \in Row, a \in Accounts \cup {Blank} :
          konto' = [konto EXCEPT ![i] = a] /\ figure' = figure
    BY <1>1 DEF WriteKonto
  <2>2. a # "bank"
    BY DEF NobodyNamesTheBank
  <2> QED BY <2>1, <2>2 DEF SheetInv, Row
<1>2. CASE \E i \in Row, f \in Figures : WriteFigure(i, f)
  <2>1. PICK i \in Row, f \in Figures : figure' = [figure EXCEPT ![i] = f] /\ konto' = konto
    BY <1>2 DEF WriteFigure
  <2>2. f \subseteq Int
    BY ValueAssumption
  <2> QED BY <2>1, <2>2 DEF SheetInv, Row
<1>3. CASE Propose
  BY <1>3, SheetPropose
<1>4. CASE \/ \E line \in BankLine : AppendLine(line)
           \/ \E receipt \in Receipts : RecordReceipt(receipt)
           \/ \E i \in Row, j \in BOOLEAN : WriteJ(i, j)
           \/ \E year \in FiscalYears, committing \in BOOLEAN : StartPost(year, committing)
           \/ PassRow \/ EndPost \/ Crash
           \/ \E accepted, answered \in BOOLEAN : PostRow(accepted, answered)
           \/ UNCHANGED vars
  <2>1. UNCHANGED <<konto, figure>>
    BY <1>4 DEF AppendLine, RecordReceipt, WriteJ, StartPost, PassRow, EndPost, Crash, PostRow,
                sheetVars, vars
  <2> QED BY <2>1 DEF SheetInv, Row
<1> QED BY <1>1, <1>2, <1>3, <1>4 DEF Next

LEMMA BooksNext ==
  ASSUME Types, SheetInv, BooksInv, [Next]_vars
  PROVE  BooksInv'
<1>1. CASE \E answered \in BOOLEAN : PostRow(TRUE, answered)
  <2> DEFINE line == seb[at]
             legs == CHOOSE l \in Payload(at) : TRUE
  <2>1. /\ booked' = [booked EXCEPT ![line] = @ + 1]
        /\ voucher' = [voucher EXCEPT ![line] = legs]
        /\ at <= rows /\ pc = "row" /\ Payload(at) # {}
    BY <1>1 DEF PostRow
  <2>2. at \in Row /\ at \in 1..Len(seb)
    BY <2>1 DEF Types, Row
  <2>3. line \in BankLine
    BY <2>2 DEF Types
  <2>4. legs \in Payload(at)
    BY <2>1
  <2>5. konto[at] # "bank" /\ figure[at] \in SUBSET Int /\ line.amount \in Int
    BY <2>2, <2>3, ValueAssumption DEF SheetInv
  <2>6. legs \in ForslagToPayload(line, konto[at], Rate(at), figure[at])
    BY <2>4 DEF Payload
  <2> HIDE DEF line, legs
  <2>7. Says(legs, line.amount)
    BY <2>5, <2>6, PayloadSays
  <2>8. booked \in [BankLine -> Nat]
    BY DEF Types
  <2>9. ASSUME NEW l \in BankLine, booked'[l] > 0
        PROVE  Says(voucher'[l], l.amount)
    <3>1. CASE l = line
      <4>1. voucher'[l] = legs
        BY <2>1, <2>3, <3>1 DEF BooksInv
      <4> QED BY <2>7, <3>1, <4>1
    <3>2. CASE l # line
      <4>1. voucher'[l] = voucher[l] /\ booked'[l] = booked[l]
        BY <2>1, <2>8, <3>2 DEF BooksInv
      <4> QED BY <2>9, <4>1 DEF BooksInv
    <3> QED BY <3>1, <3>2
  <2>10. DOMAIN voucher' = BankLine
    BY <2>1 DEF BooksInv
  <2> QED BY <2>9, <2>10 DEF BooksInv
<1>2. CASE ~ \E answered \in BOOLEAN : PostRow(TRUE, answered)
  <2>1. UNCHANGED <<booked, voucher>>
    BY <1>2 DEF Next, vars, AppendLine, RecordReceipt, WriteJ, WriteKonto, WriteFigure, Edit,
                Propose, StartPost, PassRow, PostRow, EndPost, Crash, bookVars
  <2> QED BY <2>1 DEF BooksInv
<1> QED BY <1>1, <1>2

\* Every voucher in the books has non-negative columns, the line's amount on the
\* bank's account and the same amount on the others together, whatever receipts,
\* corrections and VAT it was made from (code, forslag_to_payload,
\* assert_balanced).
THEOREM VouchersAreTheirLinesHolds ==
  ASSUME NobodyNamesTheBank
  PROVE  Spec => []VouchersAreTheirLines
<1> DEFINE Inv == Types /\ Recorded /\ SheetInv /\ BooksInv
<1>1. Init => Inv
  <2> SUFFICES ASSUME Init PROVE Inv
    OBVIOUS
  <2>1. Recorded
    BY DEF Init, Recorded
  <2>2. SheetInv
    BY DEF Init, SheetInv, NobodyNamesTheBank
  <2>3. BooksInv
    BY DEF Init, BooksInv
  <2> QED BY <2>1, <2>2, <2>3, TypesInit
<1>2. Inv /\ [Next]_vars => Inv'
  BY TypesNext, RecordedNext, SheetNext, BooksNext
<1>3. Inv => VouchersAreTheirLines
  BY DEF BooksInv, Says, VouchersAreTheirLines
<1> HIDE DEF Inv
<1> QED BY <1>1, <1>2, <1>3, PTL DEF Spec
=============================================================================
