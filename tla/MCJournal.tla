------------------------------ MODULE MCJournal ------------------------------
(* Small instances of the journal for TLC. *)
EXTENDS Journal

CONSTANTS amal, badr   \* names of parties

(* One ordinary receipt, one charge to a party given by name, and one       *)
(* request that names a party and then an account that is a heading.        *)
Line(ref, debit, credit) == [ref |-> ref, debit |-> debit, credit |-> credit]

MCUsers     == {"clerk", "cfo", "admin"}
MCRecorders == {"clerk", "cfo"}
MCManagers  == {"cfo", "admin"}
MCExempt    == {"admin"}

MCAccounts    == {"cash", "dues", "debtors", "assets"}
MCLeaves      == {"cash", "dues", "debtors"}
MCDebitNature == {"cash", "debtors", "assets"}
MCControlled  == {"debtors"}

Receipt == [month |-> 1, lines |->
    [a \in {"cash", "dues"} |->
        IF a = "cash" THEN Line(NoParty, 100, 0) ELSE Line(NoParty, 0, 100)]]

ChargeTo(ref) == [month |-> 2, lines |->
    [a \in {"debtors", "dues"} |->
        IF a = "debtors" THEN Line(ref, 200, 0) ELSE Line(NoParty, 0, 200)]]

OnHeading == [month |-> 1, lines |->
    [a \in {"debtors", "assets"} |->
        IF a = "debtors" THEN Line(badr, 100, 0) ELSE Line(NoParty, 0, 100)]]

(* Two debits of half a piaster against a credit of one, for a party given *)
(* by an id that may name none.                                            *)
Halves == [month |-> 1, lines |->
    [a \in {"cash", "debtors", "dues"} |->
        CASE a = "cash"    -> Line(NoParty, 5, 0)
          [] a = "debtors" -> Line(<<"debtors", badr>>, 5, 0)
          [] a = "dues"    -> Line(NoParty, 0, 10)]]

OneRequest    == {Receipt}
PartyRequests == {ChargeTo(amal), OnHeading, Halves}
==============================================================================
