------------------------------ MODULE MCLedger ------------------------------
(* Small statements: two purchases of the same amount days apart, one of   *)
(* another amount that no keyword codes, and an income; one receipt near   *)
(* both purchases, one that is nearer the first.  Any line may come twice. *)
(* The figures the owner may write are blank, too much, negative and right.*)
EXTENDS Ledger

MCBankLine ==
  {[day |-> 1, amount |-> -112, text |-> "shop", year |-> 2],
   [day |-> 4, amount |-> -112, text |-> "shop", year |-> 2],
   [day |-> 2, amount |-> 50, text |-> "other", year |-> 2],
   [day |-> 2, amount |-> -113, text |-> "unknown", year |-> 2]}
MCReceipts ==
  {[day |-> 3, gross |-> 112, rate |-> {12}, figure |-> {}, konto |-> "6110"],
   [day |-> 0, gross |-> 113, rate |-> {}, figure |-> {}, konto |-> "blank"]}
MCKeywordKonto ==
  [t \in {"shop", "other", "unknown"} |->
     CASE t = "shop" -> "5410" [] t = "other" -> "3041" [] OTHER -> "blank"]
MCFigures == {{}, {120}, {-5}, {12}}
=============================================================================
