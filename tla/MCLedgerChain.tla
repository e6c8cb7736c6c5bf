---------------------------- MODULE MCLedgerChain ----------------------------
(* Small instances of the chained journal: one user who may do everything,  *)
(* receipts of two months, no parties.                                      *)
EXTENDS LedgerChain

Line(debit, credit) == [ref |-> NoParty, debit |-> debit, credit |-> credit]

ReceiptOf(m) == [month |-> m, lines |->
    [a \in {"cash", "dues"} |-> IF a = "cash" THEN Line(100, 0) ELSE Line(0, 100)]]

MCRequests == {ReceiptOf(m) : m \in Months}
==============================================================================
