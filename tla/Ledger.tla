--------------------------------- MODULE Ledger ---------------------------------
(***************************************************************************)
(* The bank import, end to end: a bank statement and a pile of receipts    *)
(* grow; `propose` matches and codes them and merges the result with the   *)
(* review sheet; the owner corrects rows and writes J on those to book;    *)
(* `post` books the approved rows in Fortnox, skipping what is already     *)
(* there.                                                                  *)
(*                                                                         *)
(* One step per edit of the workbook, per proposal and per row posted.  A  *)
(* voucher may be booked although its answer is lost, a run may stop       *)
(* between any two rows, and a run is repeated as often as the owner likes.*)
(* The code has no caller yet: that one run posts at a time, and that the  *)
(* owner starts it, are assumptions of this module.  A run is given the    *)
(* rows it read at its start, so the workbook is edited between runs: an   *)
(* edit made during one is as good as made after it.                       *)
(***************************************************************************)
EXTENDS BankRules

CONSTANTS
  BankLine,      \* the lines a statement may hold; rad_id is the line itself
  Receipts,      \* the receipts the owner may record
  Accounts,      \* the accounts the owner may write
  Figures,       \* the VAT figures the owner may write
  FiscalYears,   \* the financial years Fortnox knows
  MaxLines,      \* bound: the lines of the statement
  MaxReceipts,   \* bound: the receipts
  MaxEdits,      \* bound: the owner's edits
  MaxTrouble     \* bound: lost answers, refusals and crashes

ASSUME LedgerAssumption ==
  /\ MaxLines \in Nat /\ MaxReceipts \in Nat /\ MaxEdits \in Nat /\ MaxTrouble \in Nat

\* Days are counted, and money is in hundredths.
ASSUME ValueAssumption ==
  /\ \A line \in BankLine : line.day \in Int /\ line.amount \in Int
  /\ \A receipt \in Receipts : receipt.day \in Int /\ receipt.figure \subseteq Int
  /\ Figures \subseteq SUBSET Int

VARIABLES
  \* the workbook: the SEB and Kvitton sheets
  seb, kvitton,
  \* the workbook: the rows of the Forslag sheet, by their place in it
  rows, konto, rate, figure, godkann,
  \* Fortnox: the vouchers booked under each rad_id, and the latest one's legs
  booked, voucher,
  \* one run of post
  pc, at, commit, marked, failed,
  \* history and bounds
  own,       \* the J on this row was written by the owner
  signed,    \* rows the owner ever wrote a J on
  edits, trouble

inputVars == <<seb, kvitton>>
sheetVars == <<rows, konto, rate, figure, godkann>>
bookVars == <<booked, voucher>>
runVars == <<pc, at, commit, marked, failed>>
vars == <<inputVars, sheetVars, bookVars, runVars, own, signed, edits, trouble>>

Row == 1..MaxLines

Init ==
  /\ seb = <<>> /\ kvitton = <<>>
  /\ rows = 0
  /\ konto = [i \in Row |-> Blank]
  /\ rate = [i \in Row |-> {}]
  /\ figure = [i \in Row |-> {}]
  /\ godkann = [i \in Row |-> FALSE]
  /\ booked = [l \in BankLine |-> 0]
  /\ voucher = [l \in BankLine |-> <<>>]
  /\ pc = "idle" /\ at = 0 /\ commit = FALSE /\ marked = {} /\ failed = {}
  /\ own = [i \in Row |-> FALSE] /\ signed = {}
  /\ edits = 0 /\ trouble = 0

-----------------------------------------------------------------------------
(* The owner and the bank                                                   *)

Between == pc = "idle"

AppendLine(line) ==
  /\ Between
  /\ Len(seb) < MaxLines
  /\ seb' = Append(seb, line)
  /\ UNCHANGED <<kvitton, sheetVars, bookVars, runVars, own, signed, edits, trouble>>

RecordReceipt(receipt) ==
  /\ Between
  /\ Len(kvitton) < MaxReceipts
  /\ kvitton' = Append(kvitton, receipt)
  /\ UNCHANGED <<seb, sheetVars, bookVars, runVars, own, signed, edits, trouble>>

Edit(i) ==
  /\ Between
  /\ i <= rows
  /\ edits < MaxEdits
  /\ edits' = edits + 1
  /\ UNCHANGED <<inputVars, rows, bookVars, runVars, trouble>>

\* The owner writes J, or takes it back.
WriteJ(i, j) ==
  /\ Edit(i)
  /\ godkann' = [godkann EXCEPT ![i] = j]
  /\ own' = [own EXCEPT ![i] = j]
  /\ signed' = IF j THEN signed \cup {i} ELSE signed
  /\ UNCHANGED <<konto, rate, figure>>

WriteKonto(i, a) ==
  /\ Edit(i)
  /\ konto' = [konto EXCEPT ![i] = a]
  /\ UNCHANGED <<rate, figure, godkann, own, signed>>

WriteFigure(i, f) ==
  /\ Edit(i)
  /\ figure' = [figure EXCEPT ![i] = f]
  /\ UNCHANGED <<konto, rate, godkann, own, signed>>

-----------------------------------------------------------------------------
(* build_proposal and merge_forslag                                         *)

\* Mutant: the key leaves out the date.
SameAmount(l, m) == l.amount = m.amount /\ l.text = m.text

SameRadId(l, m) == l = m

\* The row of the sheet that speaks for a line: the last one of its rad_id.
Prev(line) ==
  LET same == {i \in 1..rows : SameRadId(seb[i], line)}
  IN {i \in same : \A j \in same : j <= i}

\* A cell of the sheet with a value in it wins; a blank one takes the proposal.
Merged(cell, line, empty, proposed) ==
  LET kept == {cell[i] : i \in Prev(line)} \ {empty}
  IN IF kept # {} THEN CHOOSE c \in kept : TRUE ELSE proposed

\* All of a proposal fails with one VAT rate it cannot read.
Propose ==
  LET matches == MatchAll(seb, kvitton)
      coding == [i \in DOMAIN seb |-> CodeLine(seb[i], matches[i], kvitton)]
      C(i) == CHOOSE c \in coding[i] : TRUE
  IN /\ Between
     /\ \A i \in DOMAIN seb : coding[i] # {}
     /\ rows' = Len(seb)
     /\ konto' = [i \in Row |-> IF i \in DOMAIN seb
                                THEN Merged(konto, seb[i], Blank, C(i).konto) ELSE Blank]
     /\ rate' = [i \in Row |-> IF i \in DOMAIN seb
                               THEN Merged(rate, seb[i], {}, {C(i).rate}) ELSE {}]
     /\ figure' = [i \in Row |-> IF i \in DOMAIN seb
                                 THEN Merged(figure, seb[i], {}, {C(i).figure}) ELSE {}]
     /\ godkann' = [i \in Row |-> i \in DOMAIN seb /\ \E e \in Prev(seb[i]) : godkann[e]]
     /\ UNCHANGED <<inputVars, bookVars, runVars, own, signed, edits, trouble>>

-----------------------------------------------------------------------------
(* run_post                                                                 *)

\* Mutant: nothing ties the rows to the year.
AnyYear(year) == year \in FiscalYears

\* The year exists and every row is dated inside it; otherwise the run aborts.
YearCovers(year) ==
  /\ year \in FiscalYears
  /\ \A i \in 1..rows : seb[i].year = year

\* The rad_ids found in the year's vouchers, every page of them.
Markers(year) == {l \in BankLine : l.year = year /\ booked[l] > 0}

StartPost(year, committing) ==
  /\ Between
  /\ rows > 0
  /\ YearCovers(year)
  /\ marked' = Markers(year)
  /\ pc' = "row" /\ at' = 1 /\ commit' = committing /\ failed' = {}
  /\ UNCHANGED <<inputVars, sheetVars, bookVars, own, signed, edits, trouble>>

Over == pc' = "idle" /\ at' = 0 /\ commit' = FALSE /\ marked' = {} /\ failed' = {}

\* Mutant: the latest row's failure is the only one.
NextRowForgets(failures) ==
  /\ failed' = failures
  /\ at' = at + 1
  /\ UNCHANGED <<pc, commit, marked>>

\* On to the next row.
NextRow(failures) ==
  /\ failed' = failed \cup failures
  /\ at' = at + 1
  /\ UNCHANGED <<pc, commit, marked>>

Skipped(i) == ~godkann[i] \/ konto[i] = Blank \/ seb[i] \in marked

Rate(i) == IF rate[i] = {} THEN 0 ELSE CHOOSE n \in rate[i] : TRUE
Payload(i) == ForslagToPayload(seb[i], konto[i], Rate(i), figure[i])

\* A row that is not for booking, or of which there is no voucher to be had.
PassRow ==
  /\ pc = "row" /\ at <= rows
  /\ \/ Skipped(at) /\ NextRow({})
     \/ ~Skipped(at) /\ Payload(at) = {} /\ NextRow({at})
     \/ ~Skipped(at) /\ Payload(at) # {} /\ ~commit /\ NextRow({})
  /\ UNCHANGED <<inputVars, sheetVars, bookVars, own, signed, edits, trouble>>

\* The voucher is booked, or refused; the answer arrives, or is lost.
PostRow(accepted, answered) ==
  /\ pc = "row" /\ at <= rows
  /\ ~Skipped(at) /\ Payload(at) # {} /\ commit
  /\ IF accepted
     THEN /\ booked' = [booked EXCEPT ![seb[at]] = @ + 1]
          /\ voucher' = [voucher EXCEPT ![seb[at]] = CHOOSE legs \in Payload(at) : TRUE]
     ELSE UNCHANGED bookVars
  /\ IF accepted /\ answered
     THEN NextRow({}) /\ UNCHANGED trouble
     ELSE NextRow({at}) /\ trouble < MaxTrouble /\ trouble' = trouble + 1
  /\ UNCHANGED <<inputVars, sheetVars, own, signed, edits>>

EndPost ==
  /\ pc = "row" /\ at > rows
  /\ Over
  /\ UNCHANGED <<inputVars, sheetVars, bookVars, own, signed, edits, trouble>>

Crash ==
  /\ pc = "row"
  /\ Over
  /\ trouble < MaxTrouble /\ trouble' = trouble + 1
  /\ UNCHANGED <<inputVars, sheetVars, bookVars, own, signed, edits>>

Next ==
  \/ \E line \in BankLine : AppendLine(line)
  \/ \E receipt \in Receipts : RecordReceipt(receipt)
  \/ \E i \in Row : \/ \E j \in BOOLEAN : WriteJ(i, j)
                    \/ \E a \in Accounts \cup {Blank} : WriteKonto(i, a)
                    \/ \E f \in Figures : WriteFigure(i, f)
  \/ Propose
  \/ \E year \in FiscalYears, committing \in BOOLEAN : StartPost(year, committing)
  \/ PassRow
  \/ \E accepted, answered \in BOOLEAN : PostRow(accepted, answered)
  \/ EndPost
  \/ Crash

Spec == Init /\ [][Next]_vars

-----------------------------------------------------------------------------
(* Properties                                                               *)

TypeOK ==
  /\ seb \in Seq(BankLine) /\ Len(seb) <= MaxLines
  /\ kvitton \in Seq(Receipts)
  /\ rows \in 0..Len(seb)
  /\ godkann \in [Row -> BOOLEAN] /\ own \in [Row -> BOOLEAN] /\ signed \subseteq Row
  /\ booked \in [BankLine -> Nat]
  /\ pc \in {"idle", "row"} /\ at \in 0..rows+1 /\ commit \in BOOLEAN
  /\ marked \subseteq BankLine
  /\ failed \subseteq Row

\* Runs repeated after lost answers and crashes book no line twice: there are
\* never more vouchers under a rad_id than the statement has lines of it.
Occurrences(line) == Cardinality({i \in DOMAIN seb : seb[i] = line})
NothingIsPostedTwice == \A line \in BankLine : booked[line] <= Occurrences(line)

\* A voucher is booked by a committed run, never a dry one, and for a row the owner
\* wrote a J on and left there, whatever proposals were merged over the sheet in
\* between.  The one exception is a line the statement holds more than once: its
\* rows share a rad_id, and the J on one of them may have come from another.
SharedJ(i) ==
  /\ \E j, k \in DOMAIN seb : j # k /\ seb[j] = seb[i] /\ seb[k] = seb[i]
  /\ \E j \in signed : j \in DOMAIN seb /\ seb[j] = seb[i]
BookedByConsent == [][booked' # booked => commit /\ (own[at] \/ SharedJ(at))]_vars

\* What is in the books balances: each leg in one column and none negative, the
\* bank's leg is the amount of the line, and the other legs come to the same.
OnBank(legs) ==
  Total([i \in DOMAIN legs |->
           IF legs[i].account = "bank" THEN legs[i].debit - legs[i].credit ELSE 0])
Elsewhere(legs) ==
  Total([i \in DOMAIN legs |->
           IF legs[i].account # "bank" THEN legs[i].credit - legs[i].debit ELSE 0])
VouchersAreTheirLines ==
  \A line \in {l \in BankLine : booked[l] > 0} :
    LET legs == voucher[line] IN
    /\ \A i \in DOMAIN legs : legs[i].debit >= 0 /\ legs[i].credit >= 0
    /\ OnBank(legs) = line.amount
    /\ Elsewhere(legs) = line.amount

\* A committed run that reaches its end and reports no failure has every row
\* that is approved and coded in the books: under its rad_id, so that of identical
\* lines one voucher is enough.
SuccessIsComplete ==
  [][(EndPost /\ commit /\ failed = {}) =>
       \A i \in 1..rows : godkann[i] /\ konto[i] # Blank => booked[seb[i]] > 0]_vars

\* No two lines are coded from one receipt, and a line is left without one it
\* could have had only where a line or a receipt no further away took its place.
MatchingIsStable ==
  LET matches == MatchAll(seb, kvitton)
      taken == Assignment(seb, kvitton)
  IN /\ \A k, l \in DOMAIN seb :
          k # l => matches[k].kvitto \cap matches[l].kvitto = {}
     /\ \A p \in Pairs(seb, kvitton) \ taken :
          \E q \in taken : (q[2] = p[2] \/ q[3] = p[3]) /\ q[1] <= p[1]

-----------------------------------------------------------------------------
(* What the repository says and the code does not do                        *)

\* bank_import/mod.rs: "Nothing is posted that a human has not approved."  Two
\* purchases alike are two rows with one rad_id, and one J does for both.
NothingUnapprovedIsPosted == [][booked' # booked => own[at]]_vars
=============================================================================
