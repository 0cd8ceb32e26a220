------------------------------- MODULE BankRules -------------------------------
(***************************************************************************)
(* The pure half of the bank import: which receipt belongs to which bank   *)
(* line (match_rules), what account and VAT a line is proposed with        *)
(* (code), and the voucher an approved row becomes (voucher, domain).      *)
(*                                                                         *)
(* Amounts are hundredths of a krona, days are integers, an optional value *)
(* is a set of at most one, and a result that may be an error is a set     *)
(* that is empty when it is.                                               *)
(*                                                                         *)
(*   bank line  [day, amount, text, year]   amount < 0: money out          *)
(*   receipt    [day, gross, rate, figure, konto]                          *)
(***************************************************************************)
EXTENDS Integers, Sequences, FiniteSets

CONSTANTS
  KeywordKonto,   \* KEYWORD_TO_BAS: the account a text names, or Blank
  Blank           \* an empty account cell

AmountTolerance == 1
DateTolerance == 5
VatRates == {6, 12, 25}

Abs2(n) == IF n < 0 THEN -n ELSE n

-----------------------------------------------------------------------------
(* match_rules                                                              *)

CandidatesFor(line, receipts) ==
  {r \in DOMAIN receipts :
     /\ Abs2(Abs2(line.amount) - receipts[r].gross) <= AmountTolerance
     /\ Abs2(line.day - receipts[r].day) <= DateTolerance}

\* Every possible pair: <<distance in days, line, receipt>>.
Pairs(lines, receipts) ==
  {<<Abs2(lines[p[1]].day - receipts[p[2]].day), p[1], p[2]>> :
     p \in {q \in (DOMAIN lines) \X (DOMAIN receipts) :
              q[2] \in CandidatesFor(lines[q[1]], receipts)}}

\* Mutant: in the order of the statement, not of the distance.
NotNearer(p, q) ==
  \/ p[2] < q[2]
  \/ p[2] = q[2] /\ p[3] < q[3]

\* Nearest first, then the bank line's order, then the receipt's.
Nearer(p, q) ==
  \/ p[1] < q[1]
  \/ p[1] = q[1] /\ p[2] < q[2]
  \/ p[1] = q[1] /\ p[2] = q[2] /\ p[3] < q[3]

\* The pairs in that order.
Queue(pairs) ==
  CHOOSE queue \in [1..Cardinality(pairs) -> pairs] :
    \A i, j \in DOMAIN queue : i < j => Nearer(queue[i], queue[j])

Conflict(p, q) == p[2] = q[2] \/ p[3] = q[3]

\* What is taken of the first n: a pair is, when neither its line nor its
\* receipt was.
TakenOf(queue) ==
  LET taken[n \in 0..Len(queue)] ==
        IF n = 0 THEN {}
        ELSE taken[n - 1] \cup
             {p \in {queue[n]} : \A q \in taken[n - 1] : ~Conflict(p, q)}
  IN taken

Assignment(lines, receipts) ==
  LET queue == Queue(Pairs(lines, receipts))
  IN TakenOf(queue)[Len(queue)]

\* A line that was assigned a receipt and could still have another is Multiple.
MatchAll(lines, receipts) ==
  LET assigned == Assignment(lines, receipts)
      consumed == {p[3] : p \in assigned}
  IN [l \in DOMAIN lines |->
        LET own == {p[3] : p \in {q \in assigned : q[2] = l}}
            free == CandidatesFor(lines[l], receipts) \ consumed
        IN [multiple |-> own # {} /\ free # {},
            kvitto |-> IF free = {} THEN own ELSE {}]]

-----------------------------------------------------------------------------
(* domain::money, domain::moms and code                                     *)

\* Half away from zero, of a quotient that is not negative.
RoundQuotient(a, b) == (2 * a + b) \div (2 * b)

\* net is rounded, VAT is what is left.
SplitGross(gross, rate) ==
  LET net == RoundQuotient(100 * gross, 100 + rate)
  IN {[net |-> net, vat |-> gross - net] : ok \in {rate} \cap (VatRates \cup {0})}

\* An exact figure wins if it is positive, or if there is no rate.
ResolveVat(gross, rate, figure) ==
  LET explicit == {f \in figure : f > 0 \/ rate = 0}
  IN IF explicit # {} THEN explicit
     ELSE IF rate > 0 THEN {s.vat : s \in SplitGross(gross, rate)}
     ELSE {0}

\* The account and VAT proposed for a line; empty where the VAT is an error.
CodeLine(line, match, receipts) ==
  LET gross == Abs2(line.amount)
      kvitto == {receipts[r] : r \in match.kvitto}
      rates == UNION {k.rate : k \in kvitto}
      rate == IF rates = {} THEN 0 ELSE CHOOSE n \in rates : TRUE
      figure == UNION {k.figure : k \in kvitto}
      konto == LET own == {k.konto : k \in kvitto} \ {Blank}
               IN IF own # {} THEN CHOOSE a \in own : TRUE ELSE KeywordKonto[line.text]
  IN IF match.multiple \/ konto = Blank
     THEN {[konto |-> Blank, rate |-> 0, figure |-> 0]}
     ELSE {[konto |-> konto, rate |-> rate, figure |-> v] : v \in ResolveVat(gross, rate, figure)}

-----------------------------------------------------------------------------
(* voucher                                                                  *)

Leg(account, debit, credit) == [account |-> account, debit |-> debit, credit |-> credit]

Total(amounts) ==
  LET sum[n \in 0..Len(amounts)] == IF n = 0 THEN 0 ELSE sum[n - 1] + amounts[n]
  IN sum[Len(amounts)]
Debits(legs) == Total([i \in DOMAIN legs |-> legs[i].debit])
Credits(legs) == Total([i \in DOMAIN legs |-> legs[i].credit])

\* Mutant: the totals alone are compared.
TotalsBalance(legs) == Debits(legs) = Credits(legs)

\* Two legs at least, each in one column, none negative, and the columns agree.
AssertBalanced(legs) ==
  /\ Len(legs) >= 2
  /\ \A i \in DOMAIN legs :
       /\ legs[i].debit >= 0 /\ legs[i].credit >= 0
       /\ (legs[i].debit = 0) # (legs[i].credit = 0)
  /\ Debits(legs) = Credits(legs)

\* The voucher of a row: empty when there is none to be had.
ForslagToPayload(line, konto, rate, figure) ==
  LET gross == Abs2(line.amount)
      legsOf(vat) ==
        IF line.amount < 0
        THEN <<Leg(konto, gross - vat, 0)>>
             \o (IF vat > 0 THEN <<Leg("input_vat", vat, 0)>> ELSE <<>>)
             \o <<Leg("bank", 0, gross)>>
        ELSE <<Leg("bank", gross, 0), Leg(konto, 0, gross - vat)>>
             \o (IF vat > 0 THEN <<Leg("output_vat", 0, vat)>> ELSE <<>>)
  IN {legsOf(vat) : vat \in {v \in ResolveVat(gross, rate, figure) :
                               /\ konto # Blank
                               /\ line.amount >= 0 /\ v > 0 => rate \in VatRates
                               /\ AssertBalanced(legsOf(v))}}
=============================================================================
