---------------------------- MODULE MCJournalStore ----------------------------
(* Small instances of the stored journal: one user who may do everything.   *)
EXTENDS JournalStore

Line(debit, credit) == [ref |-> NoParty, debit |-> debit, credit |-> credit]

MCRequests ==
    {[month |-> 1, lines |->
        [a \in {"cash", "dues"} |-> IF a = "cash" THEN Line(100, 0) ELSE Line(0, 100)]]}
==============================================================================
