--------------------------- MODULE MCLedgerEvidence ---------------------------
(***************************************************************************)
(* One movement, and a statement row of it that does not resemble the      *)
(* bank's record enough. A card payment has neither an IBAN nor a          *)
(* remittance text to compare: when it is booked a day or two after the    *)
(* purchase, _match_score is at most 0.20 for the date and 0.30 for the    *)
(* name, below the 0.55 a row has to reach.                                *)
(***************************************************************************)
EXTENDS LedgerEvidence

CONSTANTS debit, row

OfDebit == [r \in {row} |-> debit]
TooLittle == [r \in {row} |-> [m \in {debit} |-> 1]]
===============================================================================
