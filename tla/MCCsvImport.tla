----------------------------- MODULE MCCsvImport -----------------------------
(***************************************************************************)
(* CsvImport on four small files.                                          *)
(***************************************************************************)
EXTENDS CsvImport

(* Serial 1 in two months; another entry of month 1 and serial 1, alone    *)
(* with a group that does not balance, and again with a draft; a file that *)
(* is there twice.                                                         *)
MCGroup(m, s, t, x, posted, sound) ==
    [month |-> m, serial |-> s, text |-> t, amount |-> x, posted |-> posted, sound |-> sound]

MCTwin  == [bytes |-> "twin",
            groups |-> <<MCGroup(1, 1, "x", 1000, TRUE, TRUE), MCGroup(2, 1, "y", 2000, TRUE, TRUE)>>]
MCClash == [bytes |-> "clash",
            groups |-> <<MCGroup(1, 1, "z", 777, TRUE, TRUE), MCGroup(1, 2, "u", 1, TRUE, FALSE)>>]
MCMore  == [bytes |-> "more",
            groups |-> <<MCGroup(1, 1, "z", 777, TRUE, TRUE), MCGroup(3, 2, "w", 50, FALSE, TRUE)>>]

MCFileOrder == <<"clash", "copy", "more", "twin">>
MCContents  ==
    [f \in Range(MCFileOrder) |->
        CASE f = "clash" -> MCClash [] f = "more" -> MCMore [] OTHER -> MCTwin]
=============================================================================
