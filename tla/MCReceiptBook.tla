---------------------------- MODULE MCReceiptBook ----------------------------
(* Small instances of the receipts and the journal for TLC. *)
EXTENDS ReceiptBook

Line(debit, credit) == [ref |-> NoParty, debit |-> debit, credit |-> credit]

MCUsers     == {"clerk", "cfo", "admin"}
MCManagers  == {"cfo", "admin"}

MCAccounts    == {"cash", "dues", "fund", "union"}
MCDebitNature == {"cash"}

(* An ordinary collection entered by hand. *)
MCRequests ==
    {[month |-> 1, lines |-> [a \in {"cash", "dues"} |->
        IF a = "cash" THEN Line(100, 0) ELSE Line(0, 100)]]}

To(account, percentage, name) == [account |-> account, percentage |-> percentage, name |-> name]

(* 50/30/20 of 1.13, which leaves a remainder; a share too small to exist; *)
(* and a revenue type without a rule, posted on request, whose four mills   *)
(* round to nothing.                                                        *)
MCRule == <<To("dues", 5000, "members"), To("fund", 3000, "fund"), To("union", 2000, "union")>>

Collection(amount, rule, autoPost) ==
    [month |-> 1, amount |-> amount, cash |-> "cash", rule |-> rule, autoPost |-> autoPost]

MCCollections ==
    {Collection(1130, MCRule, FALSE), Collection(10, MCRule, FALSE), Collection(4, <<>>, TRUE)}
==============================================================================
