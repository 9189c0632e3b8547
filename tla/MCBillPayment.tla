---------------------------- MODULE MCBillPayment ----------------------------
(***************************************************************************)
(* Small instances of BillPayment for TLC.                                 *)
(***************************************************************************)
EXTENDS BillPayment, TLC

CONSTANTS b1, b2, h1, h2

\* References tell the bills' transactions apart.
Distinct == {<<b1, b1>>, <<b2, b2>>}
OneBill == {<<b1, b1>>}
\* Two bills of one creditor with the same amount in the same days: the match
\* by IBAN or by name cannot tell which one a transaction pays.
Same == {b1, b2} \X {b1, b2}

\* Distinct is the same relation when the bills change names.
BillAndSessionSymmetry == Permutations({b1, b2}) \cup Permutations({h1, h2})
=============================================================================
